---- MODULE Spec2Model ----
(***************************************************************************)
(* Draft advisor (apps/scraper-service/app): the sequence state machine    *)
(* of draft_v2_engine.py (normalize_draft_state, _get_current_action,      *)
(* _apply_action) and the role-feasibility solver (_assignment_for_side).  *)
(*                                                                         *)
(* Hero names are positive integers.  A raw payload token is an integer:   *)
(* h > 0 is the normalised spelling of hero h, -h is another spelling of   *)
(* the same hero (upper case, padded with blanks), 0 is a blank or null    *)
(* entry.  Role powers are integers in hundredths (70 is 0.70).            *)
(***************************************************************************)
EXTENDS Integers, Sequences, FiniteSets, TLC

VARIABLES
    payload,    \* the request body being served
    phase,      \* "idle" | "ready" (a draft state exists) | "rejected" | "solve" | "solved" | "request" | "answered"
    error,      \* message of the DraftV2RequestError raised, "" when none
    state,      \* the draft state dict: turnIndex, actionProgress, picks, bans
    last,       \* the last operation run: its name, its hero argument, the state it was given
    profiles,   \* the profile store: hero -> profile
    heroes,     \* the hero list handed to _assignment_for_side
    assign,     \* the dict _assignment_for_side returned
    response,   \* the dict recommend_from_payload returned
    files,      \* the three source files: fingerprint and content of each
    cache,      \* _PROFILE_CACHE and _ROLE_POOL_CACHE
    calls       \* the calls of _build_profiles in flight, one per thread

vars == <<payload, phase, error, state, last, profiles, heroes, assign, response,
          files, cache, calls>>

----------------------------------------------------------------------------
(* Bounds of the model *)

NumHeroes == 20         \* hero names are 1..NumHeroes
MaxTurn == 16           \* largest turnIndex a payload carries
MaxProgress == 2        \* largest actionProgress a payload carries

Heroes == 1..NumHeroes

----------------------------------------------------------------------------
(* Constants of the program *)

ROLE_COUNT == 5

Sides == {"ally", "enemy"}

DRAFT_V2_SEQUENCE ==
    << [type |-> "ban",  side |-> "ally",  count |-> 2],
       [type |-> "ban",  side |-> "enemy", count |-> 2],
       [type |-> "ban",  side |-> "ally",  count |-> 1],
       [type |-> "ban",  side |-> "enemy", count |-> 1],
       [type |-> "pick", side |-> "ally",  count |-> 1],
       [type |-> "pick", side |-> "enemy", count |-> 2],
       [type |-> "pick", side |-> "ally",  count |-> 2],
       [type |-> "pick", side |-> "enemy", count |-> 1],
       [type |-> "ban",  side |-> "enemy", count |-> 1],
       [type |-> "ban",  side |-> "ally",  count |-> 1],
       [type |-> "ban",  side |-> "enemy", count |-> 1],
       [type |-> "ban",  side |-> "ally",  count |-> 1],
       [type |-> "pick", side |-> "enemy", count |-> 1],
       [type |-> "pick", side |-> "ally",  count |-> 2],
       [type |-> "pick", side |-> "enemy", count |-> 1] >>

----------------------------------------------------------------------------
(* Helpers *)

Min(a, b) == IF a <= b THEN a ELSE b
Max(a, b) == IF a >= b THEN a ELSE b

Range(s) == {s[i] : i \in 1..Len(s)}

\* `x in list`
InList(x, s) == \E i \in 1..Len(s) : s[i] = x

\* _norm_hero: str(value or "").strip().lower(); every spelling of a hero
\* maps to its normalised name, a blank or null entry to the empty name 0.
NormHero(t) == IF t < 0 THEN -t ELSE t

\* _unique_list: keep the first occurrence of every non-empty value.
RECURSIVE UniqueFrom(_, _, _)
UniqueFrom(values, i, out) ==
    IF i > Len(values) THEN out
    ELSE IF values[i] # 0 /\ ~InList(values[i], out)
         THEN UniqueFrom(values, i + 1, Append(out, values[i]))
         ELSE UniqueFrom(values, i + 1, out)

UniqueList(values) == UniqueFrom(values, 1, <<>>)

\* [_norm_hero(x) for x in raw if _norm_hero(x)]
NormAll(raw) ==
    LET keep == SelectSeq(raw, LAMBDA t : NormHero(t) # 0)
    IN  [i \in 1..Len(keep) |-> NormHero(keep[i])]

\* A raw side value of the payload: null, a list (or legacy object) of
\* tokens, or anything else (a scalar).
Null == [kind |-> "null", items |-> <<>>]
Scalar == [kind |-> "scalar", items |-> <<>>]
List(items) == [kind |-> "list", items |-> items]

\* _parse_side_heroes raises for a value that is neither null, list nor object.
ParseFails(raw) == raw.kind = "scalar"

\* _parse_side_heroes: null gives [], a list (or the values of a legacy
\* object) gives its normalised non-empty names, first occurrences only.
ParseSideHeroes(raw) ==
    IF raw.kind = "null" THEN <<>> ELSE UniqueList(NormAll(raw.items))

----------------------------------------------------------------------------
(* normalize_draft_state *)

NoState == [turnIndex |-> 0, actionProgress |-> 0,
            picks |-> [s \in Sides |-> <<>>], bans |-> [s \in Sides |-> <<>>]]

\* len(picks["ally"]) > ROLE_COUNT or len(picks["enemy"]) > ROLE_COUNT
TooManyPicks(picks) ==
    Len(picks["ally"]) > ROLE_COUNT \/ Len(picks["enemy"]) > ROLE_COUNT

\* set(picks["ally"]) & set(picks["enemy"])
PickedByBoth(picks) == Range(picks["ally"]) \cap Range(picks["enemy"]) # {}

\* Faulty variant: compares each side's picks with its own bans only.
PickedAndBannedOwnSideOnly(picks, bans) ==
    \E s \in Sides : Range(picks[s]) \cap Range(bans[s]) # {}

\* all_picked & all_banned
PickedAndBanned(picks, bans) ==
    (Range(picks["ally"]) \cup Range(picks["enemy"]))
        \cap (Range(bans["ally"]) \cup Range(bans["enemy"])) # {}

\* int(payload.get(key) or 0), negative values raised to 0
ClampCounter(n) == IF n < 0 THEN 0 ELSE n

Reject(msg) == [ok |-> FALSE, error |-> msg, state |-> NoState]

\* The outcome of normalize_draft_state: the normalised state, or the
\* request error raised.  The patch and sequenceKey strings are carried
\* through unread by the engine and are left out.
NormalizeDraftState(p) ==
    IF \E s \in Sides : ParseFails(p.picks[s]) \/ ParseFails(p.bans[s])
    THEN Reject("Side picks/bans must be array (or object for legacy picks)")
    ELSE
    LET picks == [s \in Sides |-> ParseSideHeroes(p.picks[s])]
        bans == [s \in Sides |-> ParseSideHeroes(p.bans[s])]
    IN  IF TooManyPicks(picks) THEN Reject("Each side can have max 5 picks")
        ELSE IF PickedByBoth(picks)
             THEN Reject("A hero cannot be picked by both teams")
        ELSE IF PickedAndBanned(picks, bans)
             THEN Reject("A hero cannot be both picked and banned")
        ELSE [ok |-> TRUE, error |-> "",
              state |-> [turnIndex |-> ClampCounter(p.turnIndex),
                         actionProgress |-> ClampCounter(p.actionProgress),
                         picks |-> picks, bans |-> bans]]

----------------------------------------------------------------------------
(* _get_current_action and _apply_action *)

NoAction == [type |-> "none", side |-> "none", count |-> 0, limit |-> 0]

\* Faulty variant: the scripted count, never capped.
StepLimitUncapped(st, act, progress) == act.count

\* The effective limit of a step: the scripted count, capped for a pick step
\* by min(limit, max(remaining + progress, 0)).

StepLimit(st, act, progress) ==
    IF act.type = "pick"
    THEN Min(act.count, Max(ROLE_COUNT - Len(st.picks[act.side]) + progress, 0))
    ELSE act.count

\* Faulty variant: a step is left one hero late.
StepSpentOffByOne(limit, progress) == limit <= 0 \/ progress > limit

\* `if limit <= 0 or progress >= limit`: the step is skipped.

StepSpent(limit, progress) == limit <= 0 \/ progress >= limit

\* The while loop of _get_current_action, from (idx, progress).
RECURSIVE Walk(_, _, _)
Walk(st, idx, progress) ==
    IF idx >= Len(DRAFT_V2_SEQUENCE)
    THEN [idx |-> idx, progress |-> progress, action |-> NoAction]
    ELSE LET act == DRAFT_V2_SEQUENCE[idx + 1]
             limit == StepLimit(st, act, progress)
         IN  IF StepSpent(limit, progress)
             THEN Walk(st, idx + 1, 0)
             ELSE [idx |-> idx, progress |-> progress,
                   action |-> [type |-> act.type, side |-> act.side,
                               count |-> act.count, limit |-> limit]]

GetCurrentAction(st) == Walk(st, st.turnIndex, st.actionProgress)

\* Faulty variant: the ban lists are not looked at.
AlreadyPickedOnly(st, hero) ==
    InList(hero, st.picks["ally"]) \/ InList(hero, st.picks["enemy"])

\* The membership tests that make _apply_action return the copy unchanged.
AlreadyInState(st, hero) ==
    \/ InList(hero, st.picks["ally"]) \/ InList(hero, st.picks["enemy"])
    \/ InList(hero, st.bans["ally"]) \/ InList(hero, st.bans["enemy"])

\* Faulty variant: the hero is appended but actionProgress is not raised.
PlaceWithoutCounting(st, cur, hero) ==
    LET side == cur.action.side
        placed == IF cur.action.type = "pick"
                  THEN [st EXCEPT !.picks[side] = Append(@, hero)]
                  ELSE [st EXCEPT !.bans[side] = Append(@, hero)]
    IN  [placed EXCEPT !.turnIndex = cur.idx, !.actionProgress = cur.progress]

\* The append of _apply_action followed by turnIndex = idx,
\* actionProgress = progress + 1.
Place(st, cur, hero) ==
    LET side == cur.action.side
        placed == IF cur.action.type = "pick"
                  THEN [st EXCEPT !.picks[side] = Append(@, hero)]
                  ELSE [st EXCEPT !.bans[side] = Append(@, hero)]
    IN  [placed EXCEPT !.turnIndex = cur.idx, !.actionProgress = cur.progress + 1]

\* Faulty variant: turnIndex is promoted, actionProgress is left as it was.
PromoteKeepProgress(st) ==
    [st EXCEPT !.turnIndex = GetCurrentAction(st).idx]

\* The re-derivation that ends _apply_action.
Promote(st) ==
    LET nxt == GetCurrentAction(st)
    IN  [st EXCEPT !.turnIndex = nxt.idx, !.actionProgress = nxt.progress]

ApplyAction(st, hero) ==
    LET cur == GetCurrentAction(st)
    IN  IF cur.action = NoAction THEN st
        ELSE IF AlreadyInState(st, hero) THEN st
        ELSE Promote(Place(st, cur, hero))

----------------------------------------------------------------------------
(* _assignment_for_side: the role-feasibility solver *)

\* data["roles"]: the role catalogue of the role-pool file, in canonical order.
ROLES == <<"exp_lane", "jungle", "mid_lane", "gold_lane", "roam">>

\* Role power used when a profile gives none (0.70) and for a hero without
\* profile (0.65), in hundredths.
DefaultRolePower == 70
UnknownHeroPower == 65

EmptyMap == [x \in {} |-> 0]

\* profiles.get(h)
HasProfile(h, store) == h \in DOMAIN store

\* (profile.get("rolePower") or {}).get(r) or 0.70
PowerOf(profile, r) ==
    IF r \in DOMAIN profile.rolePower /\ profile.rolePower[r] # 0
    THEN profile.rolePower[r]
    ELSE DefaultRolePower

\* Faulty variant: a hero without a profile is given no role at all.
CandidatesKnownOnly(h, store, roles) ==
    IF HasProfile(h, store)
    THEN LET inSet == SelectSeq(store[h].possibleRoles, LAMBDA r : InList(r, roles))
             poss == IF inSet = <<>> THEN roles ELSE inSet
         IN  [i \in 1..Len(poss) |-> <<poss[i], PowerOf(store[h], poss[i])>>]
    ELSE <<>>

\* candidates[h]: the (role, power) pairs of a hero, in the order the solver
\* tries them.
Candidates(h, store, roles) ==
    IF HasProfile(h, store)
    THEN LET inSet == SelectSeq(store[h].possibleRoles, LAMBDA r : InList(r, roles))
             poss == IF inSet = <<>> THEN roles ELSE inSet
         IN  [i \in 1..Len(poss) |-> <<poss[i], PowerOf(store[h], poss[i])>>]
    ELSE [i \in 1..Len(roles) |-> <<roles[i], UnknownHeroPower>>]

\* sorted(picks, key=lambda h: len(candidates[h])): a stable sort, so a hero
\* goes behind every hero already placed whose key is not larger.
RECURSIVE InsertByLen(_, _, _, _, _)
InsertByLen(sorted, h, store, roles, i) ==
    IF i > Len(sorted)
    THEN Append(sorted, h)
    ELSE IF Len(Candidates(sorted[i], store, roles)) > Len(Candidates(h, store, roles))
         THEN SubSeq(sorted, 1, i - 1) \o <<h>> \o SubSeq(sorted, i, Len(sorted))
         ELSE InsertByLen(sorted, h, store, roles, i + 1)

RECURSIVE OrderFrom(_, _, _, _, _)
OrderFrom(picks, store, roles, i, sorted) ==
    IF i > Len(picks) THEN sorted
    ELSE OrderFrom(picks, store, roles, i + 1, InsertByLen(sorted, picks[i], store, roles, 1))

Order(picks, store, roles) == OrderFrom(picks, store, roles, 1, <<>>)

\* Faulty variant: a role is handed out however often.
RoleTakenNever(role, used) == FALSE

\* `if role in used: continue`

RoleTaken(role, used) == role \in used

\* dfs(i, score): the complete matchings below this node, in the order the
\* recursion reaches them, each with the `chosen` map and the score it had.
\* TryRoles is the for loop over candidates[hero], from candidate j on.
RECURSIVE Dfs(_, _, _, _, _, _, _)
RECURSIVE TryRoles(_, _, _, _, _, _, _, _)
Dfs(order, store, roles, i, used, chosen, score) ==
    IF i > Len(order)
    THEN << [chosen |-> chosen, score |-> score] >>
    ELSE TryRoles(order, store, roles, i, used, chosen, score, 1)

TryRoles(order, store, roles, i, used, chosen, score, j) ==
    LET hero == order[i]
        cands == Candidates(hero, store, roles)
    IN  IF j > Len(cands) THEN <<>>
        ELSE LET role == cands[j][1]
                 power == cands[j][2]
                 below == IF RoleTaken(role, used) THEN <<>>
                          ELSE Dfs(order, store, roles, i + 1, used \cup {role},
                                   (hero :> role) @@ chosen, score + power)
             IN  below \o TryRoles(order, store, roles, i, used, chosen, score, j + 1)

\* Faulty variant: the comparison is turned round.
BeatsBestReversed(score, best) == score < best

\* `if score > best_score`

BeatsBest(score, best) == score > best

\* best_score and best_assignment once every matching was reached:
\* best_score starts at -1.0 and best_assignment at None (which
\* `best_assignment or {}` reads as the empty map); a matching replaces the
\* best so far when its score beats it, so the one left is the matching
\* that beat every earlier one and that no later one beat.
Best(leaves) ==
    IF leaves = <<>> THEN [score |-> -100, chosen |-> EmptyMap]
    ELSE leaves[CHOOSE i \in 1..Len(leaves) :
                    /\ \A j \in 1..(i - 1) : BeatsBest(leaves[i].score, leaves[j].score)
                    /\ \A j \in (i + 1)..Len(leaves) :
                           ~BeatsBest(leaves[j].score, leaves[i].score)]

\* Faulty variant: only the best matching is recorded.
RoleOptionsOfBestOnly(picks, leaves) ==
    [h \in Range(picks) |->
        IF leaves = <<>> THEN {} ELSE {Best(leaves).chosen[h]}]

\* hero_role_options: the roles each hero held in the matchings reached.
RoleOptions(picks, leaves) ==
    [h \in Range(picks) |-> {leaves[i].chosen[h] : i \in 1..Len(leaves)}]

\* Faulty variant: every side has one arrangement to count against.
PermOfOne(n, r) == 1

\* _perm(n, r)
RECURSIVE PermFrom(_, _)
PermFrom(n, r) == IF r = 0 THEN 1 ELSE n * PermFrom(n - 1, r - 1)
Perm(n, r) == IF r < 0 \/ r > n THEN 0 ELSE PermFrom(n, r)

\* {r: h for h, r in hero_to_role.items()}
Invert(heroToRole) ==
    [r \in {heroToRole[h] : h \in DOMAIN heroToRole} |->
        CHOOSE h \in DOMAIN heroToRole : heroToRole[h] = r]

\* Faulty variant: every role is reported open.
OpenRolesAll(roles, roleToHero) == roles

\* [r for r in roles if r not in role_to_hero]
OpenRoles(roles, roleToHero) ==
    SelectSeq(roles, LAMBDA r : r \notin DOMAIN roleToHero)

\* Faulty variant: the two weights are exchanged.
FeasibilityScoreSwapped(valid, maxAssignments, bestScore, n) ==
    LET den == Max(maxAssignments, 1) * Max(n, 1)
        num == 5500 * valid * Max(n, 1) + 45 * bestScore * Max(maxAssignments, 1)
        rounded == (2 * num + den) \div (2 * den)
    IN  Max(0, Min(10000, rounded))

\* round(clamp((0.45 * ratio + 0.55 * avg_power) * 100, 0, 100) / 100, 4),
\* in ten-thousandths: the exact value rounded to the nearest unit.
FeasibilityScore(valid, maxAssignments, bestScore, n) ==
    LET den == Max(maxAssignments, 1) * Max(n, 1)
        num == 4500 * valid * Max(n, 1) + 55 * bestScore * Max(maxAssignments, 1)
        rounded == (2 * num + den) \div (2 * den)
    IN  Max(0, Min(10000, rounded))

\* The dict _assignment_for_side returns.  Scores are in hundredths,
\* feasibilityScore in ten-thousandths, heroRoleOptions maps to role sets
\* (the code returns them as sorted lists).
AssignmentForSide(heroList, store, roles) ==
    LET picks == UniqueList(NormAll(heroList))
        n == Len(picks)
    IN  IF n = 0
        THEN [isFeasible |-> TRUE, bestScore |-> 0, bestAssignment |-> EmptyMap,
              heroToRole |-> EmptyMap, openRoles |-> roles, validAssignments |-> 1,
              maxAssignments |-> 1, feasibilityScore |-> 10000,
              heroRoleOptions |-> EmptyMap]
        ELSE
        LET leaves == Dfs(Order(picks, store, roles), store, roles, 1, {}, EmptyMap, 0)
            valid == Len(leaves)
            best == Best(leaves)
            maxAssignments == Perm(Len(roles), n)
        IN  IF ~(valid > 0)
            THEN [isFeasible |-> FALSE, bestScore |-> 0, bestAssignment |-> EmptyMap,
                  heroToRole |-> EmptyMap, openRoles |-> roles, validAssignments |-> 0,
                  maxAssignments |-> maxAssignments, feasibilityScore |-> 0,
                  heroRoleOptions |-> [h \in Range(picks) |-> {}]]
            ELSE [isFeasible |-> TRUE, bestScore |-> best.score,
                  bestAssignment |-> Invert(best.chosen),
                  heroToRole |-> best.chosen,
                  openRoles |-> OpenRoles(roles, Invert(best.chosen)),
                  validAssignments |-> valid,
                  maxAssignments |-> maxAssignments,
                  feasibilityScore |-> FeasibilityScore(valid, maxAssignments, best.score, n),
                  heroRoleOptions |-> RoleOptions(picks, leaves)]

----------------------------------------------------------------------------
(* Requests against the sequence state machine *)

FromTo(a, b) == [i \in 1..(b - a + 1) |-> a + i - 1]

NoPayload == [picks |-> [s \in Sides |-> Null], bans |-> [s \in Sides |-> Null],
              turnIndex |-> 0, actionProgress |-> 0]

\* Payloads that exercise the shape and overlap checks: blank entries, two
\* spellings of one hero, a scalar side, six heroes on a side, heroes shared
\* between lists.
ShapePayloads ==
    { [picks |-> [s \in Sides |-> IF s = "ally" THEN pa ELSE pe],
       bans |-> [s \in Sides |-> IF s = "ally" THEN ba ELSE be],
       turnIndex |-> 0, actionProgress |-> 0] :
        pa \in {Null, Scalar, List(<<1>>), List(<<0, 1, -1>>),
                List(FromTo(1, 6)), List(<<1, 2, 3, 4, 5, -5>>)},
        pe \in {Null, List(<<1>>), List(<<7>>), List(FromTo(7, 12))},
        ba \in {Null, List(<<1>>), List(<<13>>), List(FromTo(13, 18))},
        be \in {Null, List(<<7>>), List(<<13>>), List(<<-13, 14>>)} }

\* Payloads that seed a draft in progress: any number of picks on each side
\* under any stored turnIndex and actionProgress, negative ones included.
SeededPayloads ==
    { [picks |-> [s \in Sides |-> IF s = "ally" THEN List(FromTo(1, a))
                                               ELSE List(FromTo(7, 6 + e))],
       bans |-> [s \in Sides |-> Null],
       turnIndex |-> t, actionProgress |-> g] :
        a \in 0..ROLE_COUNT, e \in 0..ROLE_COUNT,
        t \in -1..MaxTurn, g \in -1..MaxProgress }

Payloads == ShapePayloads \cup SeededPayloads

AllHeroes(st) ==
    Range(st.picks["ally"]) \cup Range(st.picks["enemy"])
        \cup Range(st.bans["ally"]) \cup Range(st.bans["enemy"])

\* The heroes a caller applies: the first hero not yet in the state (names
\* are only compared for equality, so any unused hero behaves as this one),
\* and the hero heading each of the four lists.
ApplyInputs(st) ==
    LET free == Heroes \ AllHeroes(st)
    IN  {h \in free : \A g \in free : h <= g}
        \cup {st.picks[s][1] : s \in {x \in Sides : st.picks[x] # <<>>}}
        \cup {st.bans[s][1] : s \in {x \in Sides : st.bans[x] # <<>>}}

NoOp == [op |-> "none", hero |-> 0, before |-> NoState]

\* None, as a fingerprint or a generation held by a cache that was never
\* filled.
None == 0

\* The generation a store was built from: the fingerprint of each file whose
\* content went into it (a role pool has no tier list in it).  NoGen is
\* `"data": None`.
NoGen == [pool |-> None, override |-> None, tier |-> None]

\* _PROFILE_CACHE and _ROLE_POOL_CACHE as the modules create them.
ColdCache ==
    [profile |-> [pool_mtime_ns |-> None, override_mtime_ns |-> None,
                  tier_mtime_ns |-> None, data |-> NoGen, meta |-> NoGen],
     rolePool |-> [cache_key |-> NoGen, data |-> NoGen]]

NoAssign == [isFeasible |-> FALSE]
NoResponse == [mode |-> "unanswered"]
NoProfiles == [h \in {} |-> 0]

Init ==
    /\ files = <<>>
    /\ cache = ColdCache
    /\ calls = <<>>
    /\ payload = NoPayload
    /\ phase = "idle"
    /\ error = ""
    /\ state = NoState
    /\ last = NoOp
    /\ profiles = NoProfiles
    /\ heroes = <<>>
    /\ assign = NoAssign
    /\ response = NoResponse

\* A request arrives and normalize_draft_state runs on its payload.
Normalize(p) ==
    /\ phase = "idle"
    /\ LET r == NormalizeDraftState(p)
       IN  /\ phase' = IF r.ok THEN "ready" ELSE "rejected"
           /\ error' = r.error
           /\ state' = r.state
    /\ payload' = p
    /\ last' = [op |-> "normalize", hero |-> 0, before |-> NoState]
    /\ UNCHANGED <<profiles, heroes, assign, response, files, cache, calls>>

\* _apply_action(state, hero): the caller continues with the returned state.
Apply(h) ==
    /\ phase = "ready"
    /\ state' = ApplyAction(state, h)
    /\ last' = [op |-> "apply", hero |-> h, before |-> state]
    /\ UNCHANGED <<payload, phase, error, profiles, heroes, assign, response, files, cache, calls>>

NormalizeStep == \E p \in Payloads : Normalize(p)
ApplyStep == \E h \in ApplyInputs(state) : Apply(h)

Next == NormalizeStep \/ ApplyStep

Spec == Init /\ [][Next]_vars

----------------------------------------------------------------------------
(* Claims about the sequence state machine, checked under Spec *)

Lists(st) == <<st.picks["ally"], st.picks["enemy"], st.bans["ally"], st.bans["enemy"]>>

TotalPlaced(st) ==
    Len(st.picks["ally"]) + Len(st.picks["enemy"])
        + Len(st.bans["ally"]) + Len(st.bans["enemy"])

NoRepeats(s) == \A i, j \in 1..Len(s) : s[i] = s[j] => i = j

JustNormalized == phase = "ready" /\ last.op = "normalize"

\* C1: every state normalize_draft_state returns has four pairwise disjoint
\* lists, each of at most 5 heroes and without repeats.
C1_NormalizedListsDisjoint ==
    JustNormalized =>
        /\ \A i, j \in 1..4 :
               i # j => Range(Lists(state)[i]) \cap Range(Lists(state)[j]) = {}
        /\ \A i \in 1..4 : Len(Lists(state)[i]) <= 5 /\ NoRepeats(Lists(state)[i])

\* An apply that reached the append: the sequence was not complete and the
\* hero was in none of the four lists.
Effective(op) ==
    /\ op.op = "apply"
    /\ op.hero \notin AllHeroes(op.before)
    /\ GetCurrentAction(op.before).action # NoAction

Advanced(before, after) ==
    \/ after.turnIndex > before.turnIndex
    \/ /\ after.turnIndex = before.turnIndex
       /\ after.actionProgress > before.actionProgress

\* C2 as stated: after apply(hero) on any draft state, turn_index strictly
\* increases, or it stays and action_progress strictly increases.
C2_EveryApplyAdvances == last.op = "apply" => Advanced(last.before, state)

\* C2 amended: after apply(hero) on a state whose sequence is not complete,
\* with a hero in none of the four lists, turn_index strictly increases, or
\* it stays and action_progress strictly increases.
C2_EffectiveApplyAdvances == Effective(last) => Advanced(last.before, state)

C2_Witness ==
    /\ Effective(last)
    /\ state.turnIndex = last.before.turnIndex
    /\ state.actionProgress = last.before.actionProgress + 1

\* The stored turnIndex and actionProgress are the derived current action.
StoresLiveStep(st) ==
    /\ GetCurrentAction(st).idx = st.turnIndex
    /\ GetCurrentAction(st).progress = st.actionProgress

\* C3 as stated: over applies from any normalised state turn_index never
\* decreases, and an apply that changes turn_index leaves action_progress 0.
C3_StepChangeResetsProgress ==
    last.op = "apply" =>
        /\ state.turnIndex >= last.before.turnIndex
        /\ state.turnIndex # last.before.turnIndex => state.actionProgress = 0

\* C3 amended: turn_index never decreases; every state an effective apply
\* returns stores the live step; and an apply that changes turn_index of a
\* state that stores the live step leaves action_progress 0 (from a state
\* whose stored step is spent the hero lands in a later step, whose
\* progress then counts it).
C3_StepChangeResetsFromLiveStep ==
    last.op = "apply" =>
        /\ state.turnIndex >= last.before.turnIndex
        /\ Effective(last) => StoresLiveStep(state)
        /\ (StoresLiveStep(last.before) /\ state.turnIndex # last.before.turnIndex)
               => state.actionProgress = 0

C3_Witness ==
    /\ Effective(last)
    /\ StoresLiveStep(last.before)
    /\ state.turnIndex = last.before.turnIndex + 1
    /\ state.actionProgress = 0

\* The script laid out slot by slot: the number of heroes the first i steps take.
RECURSIVE SlotsBefore(_)
SlotsBefore(i) == IF i = 0 THEN 0 ELSE SlotsBefore(i - 1) + DRAFT_V2_SEQUENCE[i].count

TotalSlots == SlotsBefore(Len(DRAFT_V2_SEQUENCE))

\* The 0-based step that takes the hero number k + 1; the script length once
\* every slot is filled.
StepOfSlot(k) ==
    IF k >= TotalSlots THEN Len(DRAFT_V2_SEQUENCE)
    ELSE CHOOSE i \in 0..(Len(DRAFT_V2_SEQUENCE) - 1) :
             SlotsBefore(i) <= k /\ k < SlotsBefore(i + 1)

\* How many of the first k slots belong to steps of this type and side.
SlotsOf(type, side, k) ==
    Cardinality({j \in 0..(k - 1) :
        /\ DRAFT_V2_SEQUENCE[StepOfSlot(j) + 1].type = type
        /\ DRAFT_V2_SEQUENCE[StepOfSlot(j) + 1].side = side})

\* C4: from the empty state the current action is step 0 (ally ban, limit 2,
\* progress 0); k distinct heroes applied one at a time fill the first k
\* slots of the 15 steps in order, no step skipped and no list above 5; after
\* the 20th the sequence is complete with 5 picks and 5 bans on each side.
C4_EmptyDraftFollowsScript ==
    (phase = "ready" /\ payload = NoPayload) =>
        LET k == TotalPlaced(state)
            cur == GetCurrentAction(state)
        IN  /\ k <= TotalSlots
            /\ TotalSlots = 20
            /\ state.turnIndex = StepOfSlot(k)
            /\ state.actionProgress = k - SlotsBefore(StepOfSlot(k))
            /\ \A s \in Sides :
                   /\ Len(state.picks[s]) = SlotsOf("pick", s, k)
                   /\ Len(state.bans[s]) = SlotsOf("ban", s, k)
                   /\ Len(state.picks[s]) <= 5 /\ Len(state.bans[s]) <= 5
            /\ k = 0 => cur = [idx |-> 0, progress |-> 0,
                               action |-> [type |-> "ban", side |-> "ally",
                                           count |-> 2, limit |-> 2]]
            /\ k < 20 => cur.action # NoAction /\ cur.idx = state.turnIndex
            /\ k = 20 => /\ cur.action = NoAction
                         /\ \A s \in Sides :
                                Len(state.picks[s]) = 5 /\ Len(state.bans[s]) = 5
            /\ Effective(last) =>
                   state.turnIndex \in {last.before.turnIndex, last.before.turnIndex + 1}

C4_Witness ==
    /\ phase = "ready" /\ payload = NoPayload
    /\ Effective(last)
    /\ TotalPlaced(state) = 20
    /\ state.turnIndex = 15

\* C5: whenever the derived current action is live, progress < limit <= the
\* scripted count of the step, and for a pick step limit - progress is at
\* most 5 - |picks[side]|; no side ever holds more than 5 picks.
C5_LimitWithinRemainingPicks ==
    phase = "ready" =>
        LET cur == GetCurrentAction(state)
        IN  /\ cur.action # NoAction =>
                   /\ cur.progress < cur.action.limit
                   /\ cur.action.limit <= DRAFT_V2_SEQUENCE[cur.idx + 1].count
                   /\ cur.action.type = "pick" =>
                          cur.action.limit - cur.progress
                              <= 5 - Len(state.picks[cur.action.side])
            /\ \A s \in Sides : Len(state.picks[s]) <= 5

\* A pick landed as the fifth of its side in a step whose scripted count was
\* cut down by the cap.
C5_Witness ==
    /\ Effective(last)
    /\ LET was == GetCurrentAction(last.before).action
       IN  /\ was.type = "pick"
           /\ was.limit < was.count
           /\ Len(state.picks[was.side]) = 5

\* C6: apply(hero) with a hero already in one of the four lists returns the
\* state it was given: same lists, same turn_index, same action_progress.
C6_ApplyOfListedHeroIsNoOp ==
    (last.op = "apply" /\ last.hero \in AllHeroes(last.before)) =>
        /\ state.picks = last.before.picks
        /\ state.bans = last.before.bans
        /\ state.turnIndex = last.before.turnIndex
        /\ state.actionProgress = last.before.actionProgress

\* A banned hero applied while a step is live.
C6_Witness ==
    /\ last.op = "apply"
    /\ last.hero \in Range(last.before.bans["ally"]) \cup Range(last.before.bans["enemy"])
    /\ GetCurrentAction(last.before).action # NoAction
    /\ state = last.before

\* The heroes a raw side value names, whatever their spelling.
Named(raw) == {NormHero(t) : t \in Range(raw.items)} \ {0}

\* C7: normalize_draft_state raises a request error and returns no state
\* whenever a hero is picked by both sides, a hero is both picked and
\* banned, or a side has more than 5 picks.
C7_InvalidPayloadRejected ==
    LET pickedA == Named(payload.picks["ally"])
        pickedE == Named(payload.picks["enemy"])
        banned == Named(payload.bans["ally"]) \cup Named(payload.bans["enemy"])
    IN  (/\ phase # "idle"
         /\ \/ pickedA \cap pickedE # {}
            \/ (pickedA \cup pickedE) \cap banned # {}
            \/ Cardinality(pickedA) > 5
            \/ Cardinality(pickedE) > 5)
        => phase = "rejected" /\ error # "" /\ state = NoState

\* A hero picked by one side and banned by the other is refused.
C7_Witness ==
    /\ phase = "rejected"
    /\ error = "A hero cannot be both picked and banned"
    /\ Named(payload.picks["enemy"]) \cap Named(payload.bans["ally"]) # {}

----------------------------------------------------------------------------
(* Requests against the solver *)

\* Profiles as the store holds them: a non-empty list of distinct roles and
\* a power above 0 for each of them.
SolverProfiles ==
    << [possibleRoles |-> <<"exp_lane">>, rolePower |-> ("exp_lane" :> 90)],
       [possibleRoles |-> <<"jungle", "exp_lane">>,
        rolePower |-> ("jungle" :> 80) @@ ("exp_lane" :> 60)],
       [possibleRoles |-> <<"jungle", "mid_lane">>,
        rolePower |-> ("jungle" :> 70) @@ ("mid_lane" :> 70)],
       [possibleRoles |-> <<"mid_lane", "gold_lane", "roam">>,
        rolePower |-> ("mid_lane" :> 50) @@ ("gold_lane" :> 100) @@ ("roam" :> 85)],
       [possibleRoles |-> ROLES, rolePower |-> [r \in Range(ROLES) |-> 70]] >>

\* A side of n heroes 1..n; hero h has profile number c[h], or none when
\* c[h] = 0.
SolverInputs ==
    UNION { { [heroes |-> FromTo(1, n),
               profiles |-> [h \in {x \in 1..n : c[x] # 0} |-> SolverProfiles[c[h]]]] :
              c \in [1..n -> 0..Len(SolverProfiles)] } : n \in 0..ROLE_COUNT }

\* Role powers of the pinned sides, in hundredths: hero h stands at one of
\* these levels plus h.
PinnedLevels == {50, 95}

\* A side of five heroes that have one role each: hero h has role number
\* c[h], so the five roles are distinct exactly when c is a permutation.
PinnedInputs ==
    { [heroes |-> FromTo(1, ROLE_COUNT),
       profiles |-> [h \in 1..ROLE_COUNT |->
                        [possibleRoles |-> <<ROLES[c[h]]>>,
                         rolePower |-> (ROLES[c[h]] :> (lv + h))]]] :
        c \in [1..ROLE_COUNT -> 1..Len(ROLES)], lv \in PinnedLevels }

InitSolver ==
    /\ files = <<>>
    /\ cache = ColdCache
    /\ calls = <<>>
    /\ payload = NoPayload
    /\ phase = "solve"
    /\ error = ""
    /\ state = NoState
    /\ last = NoOp
    /\ assign = NoAssign
    /\ response = NoResponse
    /\ \E in \in SolverInputs \cup PinnedInputs :
           heroes = in.heroes /\ profiles = in.profiles

\* _assignment_for_side(heroes, profiles, roles)
Solve ==
    /\ phase = "solve"
    /\ assign' = AssignmentForSide(heroes, profiles, ROLES)
    /\ phase' = "solved"
    /\ last' = [op |-> "solve", hero |-> 0, before |-> NoState]
    /\ UNCHANGED <<payload, error, state, profiles, heroes, response, files, cache, calls>>

NextSolver == Solve

SpecSolver == InitSolver /\ [][NextSolver]_vars

----------------------------------------------------------------------------
(* Claims about the solver, checked under SpecSolver *)

HeroSet == Range(heroes)
RoleSet == Range(ROLES)

\* The roles a hero may take: those of its profile, all five without one.
Eligible(h) ==
    IF h \in DOMAIN profiles THEN Range(profiles[h].possibleRoles) ELSE RoleSet

\* The power of a hero in a role: the profile's, 0.65 without a profile.
PowerIn(h, r) ==
    IF h \in DOMAIN profiles THEN profiles[h].rolePower[r] ELSE 65

\* The maps that give every hero of a set one of its eligible roles.
RECURSIVE EligibleMaps(_)
EligibleMaps(todo) ==
    IF todo = {} THEN {EmptyMap}
    ELSE LET h == CHOOSE x \in todo : TRUE
         IN  {(h :> r) @@ m : r \in Eligible(h), m \in EligibleMaps(todo \ {h})}

\* The injective hero-to-role maps that give every hero an eligible role.
ValidMaps ==
    {f \in EligibleMaps(HeroSet) : \A g, h \in HeroSet : f[g] = f[h] => g = h}

RECURSIVE TotalPower(_, _)
TotalPower(f, todo) ==
    IF todo = {} THEN 0
    ELSE LET h == CHOOSE x \in todo : TRUE
         IN  PowerIn(h, f[h]) + TotalPower(f, todo \ {h})

\* C8: valid_assignments is the number of injective hero-to-role maps that
\* give every hero one of its eligible roles (all five for a hero without
\* profile), and is_feasible holds exactly when that number is above 0.
C8_ValidAssignmentsCountsMatchings ==
    phase = "solved" =>
        LET count == Cardinality(ValidMaps)
        IN  /\ assign.validAssignments = count
            /\ assign.isFeasible <=> count > 0

\* Five heroes, one of them without profile, with more than one matching.
C8_Witness ==
    /\ phase = "solved"
    /\ Len(heroes) = 5
    /\ \E h \in HeroSet : h \notin DOMAIN profiles
    /\ assign.validAssignments > 1
    /\ assign.validAssignments < 120

\* C9: when feasible, best_assignment maps roles to heroes, gives every
\* hero exactly one role, an eligible one, has only roles as keys and input
\* heroes as values, has a summed power no valid assignment exceeds, and
\* open_roles is exactly the roles it leaves out; when infeasible it is empty.
C9_BestAssignmentIsMaximalMatching ==
    phase = "solved" =>
        LET best == assign.bestAssignment
        IN  IF assign.isFeasible
            THEN /\ DOMAIN best \subseteq RoleSet
                 /\ \A r \in DOMAIN best : best[r] \in HeroSet
                 /\ \A h \in HeroSet :
                        /\ Cardinality({r \in DOMAIN best : best[r] = h}) = 1
                        /\ \A r \in DOMAIN best : best[r] = h => r \in Eligible(h)
                 /\ LET asMap == [h \in HeroSet |->
                                     CHOOSE r \in DOMAIN best : best[r] = h]
                        power == TotalPower(asMap, HeroSet)
                    IN  \A f \in ValidMaps : power >= TotalPower(f, HeroSet)
                 /\ Range(assign.openRoles) = RoleSet \ DOMAIN best
                 /\ Len(assign.openRoles) = Cardinality(RoleSet \ DOMAIN best)
            ELSE best = EmptyMap

\* A feasible side whose matchings differ in power, the best one leaving
\* roles open.
C9_Witness ==
    /\ phase = "solved"
    /\ assign.isFeasible
    /\ Len(heroes) >= 3
    /\ assign.openRoles # <<>>
    /\ \E f, g \in ValidMaps : TotalPower(f, HeroSet) < TotalPower(g, HeroSet)

\* C10: hero_role_options[h] is exactly the set of roles h takes in at least
\* one valid assignment of the whole side, and is empty for every hero of
\* an infeasible side.
C10_RoleOptionsAreRolesOfSomeMatching ==
    phase = "solved" =>
        LET valid == ValidMaps
        IN  /\ DOMAIN assign.heroRoleOptions = HeroSet
            /\ \A h \in HeroSet : assign.heroRoleOptions[h] = {f[h] : f \in valid}
            /\ ~assign.isFeasible => \A h \in HeroSet : assign.heroRoleOptions[h] = {}

\* A feasible side on which the others keep a hero out of an eligible role.
C10_Witness ==
    /\ phase = "solved"
    /\ assign.isFeasible
    /\ \E h \in HeroSet :
           /\ assign.heroRoleOptions[h] # Eligible(h)
           /\ Cardinality(assign.heroRoleOptions[h]) > 1

----------------------------------------------------------------------------
(* Claims about the solver's scores, checked under SpecSolver *)

\* The best summed power over the valid assignments of the side.
BestPower(valid) ==
    LET f == CHOOSE g \in valid :
                 \A k \in valid : TotalPower(g, HeroSet) >= TotalPower(k, HeroSet)
    IN  TotalPower(f, HeroSet)

\* P(5, n) for n = 1..5.
Arrangements == <<5, 20, 60, 120, 120>>

\* x is a value of num / den rounded to the nearest unit, whichever way a
\* tie goes.
NearestTo(x, num, den) ==
    LET diff == x * den - num
    IN  2 * (IF diff < 0 THEN -diff ELSE diff) <= den

Clamp01(x, den) == Max(0, Min(10000 * den, x))

\* C11 as stated: a side of five picks has open_roles = [], is feasible
\* exactly when its heroes' eligible roles can cover the five roles, and
\* hero_role_options holds exactly one role for each hero.
C11_FivePicksSingleValued ==
    (phase = "solved" /\ Len(heroes) = ROLE_COUNT) =>
        /\ assign.openRoles = <<>>
        /\ assign.isFeasible <=> ValidMaps # {}
        /\ \A h \in HeroSet : Cardinality(assign.heroRoleOptions[h]) = 1

\* C11: a side of five picks is feasible exactly when its heroes' eligible
\* roles can cover the five roles; a feasible one has open_roles = [] and
\* at least one role in hero_role_options for each hero, exactly one for
\* every hero only when valid_assignments = 1; an infeasible one has all
\* five roles in open_roles and no role in hero_role_options for any hero.
C11_FivePicksCoverOrAllOpen ==
    (phase = "solved" /\ Len(heroes) = ROLE_COUNT) =>
        /\ assign.isFeasible <=> ValidMaps # {}
        /\ assign.isFeasible =>
               /\ assign.openRoles = <<>>
               /\ \A h \in HeroSet : assign.heroRoleOptions[h] # {}
               /\ (\A h \in HeroSet : Cardinality(assign.heroRoleOptions[h]) = 1)
                      <=> assign.validAssignments = 1
        /\ ~assign.isFeasible =>
               /\ assign.openRoles = ROLES
               /\ \A h \in HeroSet : assign.heroRoleOptions[h] = {}

\* Five picks that cover the five roles in more than one way, one hero
\* having several roles among the matchings.
C11_Witness ==
    /\ phase = "solved"
    /\ Len(heroes) = ROLE_COUNT
    /\ assign.isFeasible
    /\ assign.openRoles = <<>>
    /\ assign.validAssignments > 1
    /\ \E h \in HeroSet : Cardinality(assign.heroRoleOptions[h]) > 1

\* The feasibility score of the side in ten-thousandths: 1.0 without
\* heroes, 0 when infeasible, else the 4-decimal rounding of
\* clamp01(0.45 * valid / P(5, n) + 0.55 * best / n).
ScoreFollowsFormula ==
    LET n == Len(heroes)
        valid == ValidMaps
    IN  IF n = 0 THEN assign.feasibilityScore = 10000
        ELSE IF valid = {} THEN assign.feasibilityScore = 0
        ELSE LET den == Arrangements[n] * n
                 num == 4500 * Cardinality(valid) * n
                            + 55 * BestPower(valid) * Arrangements[n]
             IN  NearestTo(assign.feasibilityScore, Clamp01(num, den), den)

\* Three heroes that are each eligible for all five roles at power 0.70.
FullyFlexThree ==
    /\ Len(heroes) = 3
    /\ \A h \in HeroSet :
           /\ h \in DOMAIN profiles
           /\ Range(profiles[h].possibleRoles) = RoleSet
           /\ \A r \in RoleSet : profiles[h].rolePower[r] = 70

\* C12 as stated: the score follows the formula, and three fully flexible
\* heroes at power 0.70 give 60 assignments, best score 2.10 and
\* feasibility score 0.8900.
C12_FullyFlexScores089 ==
    phase = "solved" =>
        /\ ScoreFollowsFormula
        /\ FullyFlexThree =>
               /\ assign.validAssignments = 60
               /\ assign.bestScore = 210
               /\ assign.feasibilityScore = 8900

\* C12: feasibility_score is 1.0 for n = 0, 0 for an infeasible side, and
\* otherwise clamp01(0.45 * valid_assignments / P(5, n) + 0.55 * best_score
\* / n) rounded to 4 decimals; three heroes each eligible for all five roles
\* at power 0.70 give valid_assignments = 60, best_score = 2.10 and
\* feasibility_score = 0.8350.
C12_FullyFlexScores0835 ==
    phase = "solved" =>
        /\ ScoreFollowsFormula
        /\ FullyFlexThree =>
               /\ assign.validAssignments = 60
               /\ assign.bestScore = 210
               /\ assign.feasibilityScore = 8350

C12_Witness ==
    /\ phase = "solved"
    /\ FullyFlexThree
    /\ assign.feasibilityScore = 8350

\* Five heroes that have one eligible role each, the five roles distinct.
PinnedFive ==
    /\ Len(heroes) = ROLE_COUNT
    /\ \A h \in HeroSet : h \in DOMAIN profiles /\ Len(profiles[h].possibleRoles) = 1
    /\ \A g, h \in HeroSet : Eligible(g) = Eligible(h) => g = h

\* The sum of the five role powers of a pinned side, in hundredths.
PinnedPowerSum ==
    TotalPower([h \in HeroSet |-> profiles[h].possibleRoles[1]], HeroSet)

\* C13 as stated: five heroes with one distinct role each give a feasible
\* side, valid_assignments = 1 and feasibility_score =
\* clamp01(0.45 * 1 + 0.55 * (sum of the five powers / 5)).
C13_PinnedFiveRatioOne ==
    (phase = "solved" /\ PinnedFive) =>
        /\ assign.isFeasible
        /\ assign.validAssignments = 1
        /\ NearestTo(assign.feasibilityScore,
                     Clamp01(4500 + 11 * PinnedPowerSum, 1), 1)

\* C13: five heroes with one distinct role each give a feasible side,
\* valid_assignments = 1 and feasibility_score = clamp01(0.45 * 1 / 120 +
\* 0.55 * (sum of the five powers / 5)) rounded to 4 decimals, 120 being
\* P(5, 5).
C13_PinnedFiveRatioOneIn120 ==
    (phase = "solved" /\ PinnedFive) =>
        /\ assign.isFeasible
        /\ assign.validAssignments = 1
        /\ assign.maxAssignments = 120
        /\ NearestTo(assign.feasibilityScore,
                     Clamp01(4500 + 120 * 11 * PinnedPowerSum, 120), 120)

C13_Witness ==
    /\ phase = "solved"
    /\ PinnedFive
    /\ assign.validAssignments = 1
    /\ assign.feasibilityScore < 4500

----------------------------------------------------------------------------
(* _evaluate_pick_candidate: the six components and the blended score *)

(* Units.  A component is an integer number of 1/Point of a score point,  *)
(* so that the means over one to five heroes and the factor 0.60 are      *)
(* exact.  Metas and the 4-decimal figures of a response are in           *)
(* ten-thousandths of a point, base and final scores (6 decimals) in      *)
(* millionths, matchup values and weights in hundredths.  The metas of    *)
(* the stores drawn below are multiples of 0.01, which keeps 0.65 * meta  *)
(* exact as well.                                                         *)
Point == 3 * 10000
PerPoint4 == 10000
PerPoint6 == 1000000

TIER_SCORE == [SS |-> 100, S |-> 88, A |-> 74, B |-> 60, C |-> 45, D |-> 30]

LOOKAHEAD_DEFAULT ==
    [enabled |-> TRUE, beamWidth |-> 6, enemyTopN |-> 4, penaltyFactor |-> 25]

\* DRAFT_V2_SCORING["phaseWeights"], in hundredths.
PhaseWeights ==
    [early |-> [meta |-> 40, counter |-> 11, synergy |-> 6, deny |-> 14,
                flex |-> 15, feasibility |-> 14],
     mid   |-> [meta |-> 29, counter |-> 27, synergy |-> 18, deny |-> 12,
                flex |-> 9, feasibility |-> 5],
     late  |-> [meta |-> 18, counter |-> 32, synergy |-> 23, deny |-> 9,
                flex |-> 1, feasibility |-> 17]]

ComponentNames == {"meta", "counter", "synergy", "deny", "flex", "feasibility"}

\* round(): num / den to the nearest integer, a half going up.
RoundDiv(num, den) == (2 * num + den) \div (2 * den)

RECURSIVE SumSeq(_)
SumSeq(q) == IF q = <<>> THEN 0 ELSE Head(q) + SumSeq(Tail(q))

Other(side) == IF side = "ally" THEN "enemy" ELSE "ally"

\* Faulty variant: no upper limit.
ClampFromBelowOnly(x) == Max(0, x)

\* _clamp(x) with its default limits 0.0 and 100.0
Clamp(x) == Max(0, Min(100 * Point, x))

\* _phase_name
PhaseName(pickCount) ==
    IF pickCount <= 2 THEN "early" ELSE IF pickCount <= 4 THEN "mid" ELSE "late"

\* profile.get("baseMeta") or 50.0, in ten-thousandths
BaseMetaOr50(profile) ==
    IF profile.baseMeta # 0 THEN profile.baseMeta ELSE 50 * PerPoint4

\* roleMeta.get(r) or baseMeta or 50.0
MetaOf(profile, r) ==
    IF r \in DOMAIN profile.roleMeta /\ profile.roleMeta[r] # 0
    THEN profile.roleMeta[r]
    ELSE BaseMetaOr50(profile)

\* max([...for r in predicted_roles], default=baseMeta or 50.0)
Meta(profile, predicted) ==
    LET m4 == IF predicted = {} THEN BaseMetaOr50(profile)
              ELSE LET best == CHOOSE r \in predicted :
                                   \A q \in predicted :
                                       MetaOf(profile, r) >= MetaOf(profile, q)
                   IN  MetaOf(profile, best)
    IN  m4 * (Point \div PerPoint4)

\* (profile.get("strongAgainst") or {}).get(e) or 0.0, and the same for
\* counteredBy
StrongAgainst(profile, e) ==
    IF e \in DOMAIN profile.strongAgainst THEN profile.strongAgainst[e] ELSE 0
CounteredBy(profile, e) ==
    IF e \in DOMAIN profile.counteredBy THEN profile.counteredBy[e] ELSE 0

Counter(profile, enemyPicks) ==
    IF enemyPicks = <<>> THEN 50 * Point
    ELSE LET diffs == [i \in 1..Len(enemyPicks) |->
                          StrongAgainst(profile, enemyPicks[i])
                              - CounteredBy(profile, enemyPicks[i])]
         IN  Clamp(50 * Point
                   + (SumSeq(diffs) * ((60 * Point) \div 100)) \div Len(diffs))

\* len(assign.get("openRoles") or roles)
OpenCount(a, roles) == Len(IF a.openRoles # <<>> THEN a.openRoles ELSE roles)

Synergy(curAssign, nextAssign, roles) ==
    IF ~nextAssign.isFeasible THEN 0
    ELSE LET coverageGain ==
                 Max(OpenCount(curAssign, roles) - OpenCount(nextAssign, roles), 0)
             flexGain == nextAssign.feasibilityScore - curAssign.feasibilityScore
         IN  Clamp(45 * Point + coverageGain * 16 * Point
                   + flexGain * 65 * (Point \div PerPoint4))

Deny(profile, myPicks, meta) ==
    IF myPicks # <<>>
    THEN LET threat == [i \in 1..Len(myPicks) |-> StrongAgainst(profile, myPicks[i])]
         IN  Clamp((SumSeq(threat) * Point) \div Len(threat))
    ELSE Clamp((65 * meta) \div 100)

Flex(profile, roles) ==
    Clamp(((Len(profile.possibleRoles) - 1) * 100 * Point)
              \div Max(Len(roles) - 1, 1))

\* (next_assign.get("feasibilityScore") or 0.0) * 100.0
Feasibility(nextAssign) == nextAssign.feasibilityScore * (Point \div 100)

\* The weighted sum of the components, in hundredths of 1/Point.
Blend(w, c) ==
    w.meta * c.meta + w.counter * c.counter + w.synergy * c.synergy
        + w.deny * c.deny + w.flex * c.flex + w.feasibility * c.feasibility

NoEval == [hero |-> 0]

\* The dict _evaluate_pick_candidate builds once cur_assign and next_assign
\* are known.  `components` holds the 4-decimal figures, `exact` the
\* components as they enter the blend; predictedRoles is a set, and the
\* reason strings are left out.
Evaluated(st, side, hero, profile, roles, curAssign, nextAssign) ==
    LET options == IF hero \in DOMAIN nextAssign.heroRoleOptions
                   THEN nextAssign.heroRoleOptions[hero] ELSE {}
        predicted == IF options # {} THEN options ELSE Range(profile.possibleRoles)
        meta == Meta(profile, predicted)
        exact == [meta |-> meta,
                  counter |-> Counter(profile, st.picks[Other(side)]),
                  synergy |-> Synergy(curAssign, nextAssign, roles),
                  deny |-> Deny(profile, st.picks[side], meta),
                  flex |-> Flex(profile, roles),
                  feasibility |-> Feasibility(nextAssign)]
        ph == PhaseName(Len(st.picks[side]) + 1)
        final == RoundDiv(Blend(PhaseWeights[ph], exact), (100 * Point) \div PerPoint6)
    IN  [hero |-> hero,
         tierScore |-> IF profile.bestTierScore # 0 THEN profile.bestTierScore
                       ELSE TIER_SCORE.C,
         predictedRoles |-> predicted,
         components |-> [c \in ComponentNames |->
                            RoundDiv(exact[c], Point \div PerPoint4)],
         exact |-> exact,
         phase |-> ph,
         baseScore |-> final,
         score |-> final,
         lookaheadPenalty |-> 0]

\* _evaluate_pick_candidate: {} for a hero without profile, else the dict
\* for cur_assign = _assignment_for_side(picks[side]) and next_assign =
\* _assignment_for_side(picks[side] + [hero]).
EvaluatePickCandidate(st, side, hero, store, roles) ==
    IF ~HasProfile(hero, store) THEN NoEval
    ELSE Evaluated(st, side, hero, store[hero], roles,
                   AssignmentForSide(st.picks[side], store, roles),
                   AssignmentForSide(Append(st.picks[side], hero), store, roles))

----------------------------------------------------------------------------
(* _recommend_pick, _recommend_ban and recommend_from_payload *)

\* profiles.keys(): the heroes of the store in the order the store holds
\* them, which is the order of their numbers.
RECURSIVE KeysFrom(_)
KeysFrom(left) ==
    IF left = {} THEN <<>>
    ELSE LET h == CHOOSE x \in left : \A y \in left : x <= y
         IN  <<h>> \o KeysFrom(left \ {h})

Keys(store) == KeysFrom(DOMAIN store)

\* Faulty variant: the ban lists are not looked at.
NotPicked(st, hero) ==
    ~(InList(hero, st.picks["ally"]) \/ InList(hero, st.picks["enemy"]))

\* `h not in occupied and h not in banned`
Unlisted(st, hero) ==
    /\ ~(InList(hero, st.picks["ally"]) \/ InList(hero, st.picks["enemy"]))
    /\ ~(InList(hero, st.bans["ally"]) \/ InList(hero, st.bans["enemy"]))

\* candidates = [h for h in profiles.keys() if ...]
CandidateHeroes(st, store) == SelectSeq(Keys(store), LAMBDA h : Unlisted(st, h))

\* The sort key (tierScore, x[field]) of a candidate, compared as a pair.
Outranks(a, b, field) ==
    \/ a.tierScore > b.tierScore
    \/ a.tierScore = b.tierScore /\ a[field] > b[field]

\* list.sort(key=..., reverse=True): it is stable, so a candidate goes in
\* front of the first one it outranks and behind its equals.
RECURSIVE InsertRanked(_, _, _, _)
InsertRanked(sorted, x, field, i) ==
    IF i > Len(sorted) THEN Append(sorted, x)
    ELSE IF Outranks(x, sorted[i], field)
         THEN SubSeq(sorted, 1, i - 1) \o <<x>> \o SubSeq(sorted, i, Len(sorted))
         ELSE InsertRanked(sorted, x, field, i + 1)

RECURSIVE SortRankedFrom(_, _, _, _)
SortRankedFrom(evals, field, i, sorted) ==
    IF i > Len(evals) THEN sorted
    ELSE SortRankedFrom(evals, field, i + 1, InsertRanked(sorted, evals[i], field, 1))

\* Faulty variant: the list is left in the order of the store.
Unsorted(evals, field) == evals

SortRanked(evals, field) == SortRankedFrom(evals, field, 1, <<>>)

\* seq[:n]
Take(q, n) == SubSeq(q, 1, Min(Max(n, 0), Len(q)))

\* scores.sort(reverse=True)
RECURSIVE InsertScore(_, _, _)
InsertScore(sorted, x, i) ==
    IF i > Len(sorted) THEN Append(sorted, x)
    ELSE IF x > sorted[i]
         THEN SubSeq(sorted, 1, i - 1) \o <<x>> \o SubSeq(sorted, i, Len(sorted))
         ELSE InsertScore(sorted, x, i + 1)

RECURSIVE SortScoresFrom(_, _, _)
SortScoresFrom(scores, i, sorted) ==
    IF i > Len(scores) THEN sorted
    ELSE SortScoresFrom(scores, i + 1, InsertScore(sorted, scores[i], 1))

SortScores(scores) == SortScoresFrom(scores, 1, <<>>)

\* Faulty variant: a candidate that leaves no valid assignment is kept.
ViableAny(ev) == ev # NoEval

\* `if not ev: continue` and `if ev["components"]["feasibility"] <= 0:
\* continue`, the two tests a pick candidate passes
Viable(ev) == ev # NoEval /\ ev.components["feasibility"] > 0

\* Faulty variant: the score of the best answer alone.
TopScoreOnly(scores, topN) == [sum |-> SumSeq(Take(scores, 1)), over |-> 1]

\* sum(scores[:max(top_n, 1)]) / max(min(top_n, len(scores)), 1), kept as
\* the fraction sum / over
MeanOfTop(scores, topN) ==
    [sum |-> SumSeq(Take(scores, Max(topN, 1))),
     over |-> Max(Min(topN, Len(scores)), 1)]

\* The loop `for hero in candidates: ev = _evaluate_pick_candidate(...)`
EvaluateAll(st, side, candidates, store, roles) ==
    [i \in 1..Len(candidates) |->
        EvaluatePickCandidate(st, side, candidates[i], store, roles)]

\* scores: the baseScore of every candidate kept, largest first
ScoresOf(kept) == SortScores([i \in 1..Len(kept) |-> kept[i].baseScore])

\* `if not scores: return 0.0`, else the mean of the top scores
MeanOrZero(scores, topN) ==
    IF scores = <<>> THEN [sum |-> 0, over |-> 1] ELSE MeanOfTop(scores, topN)

\* _enemy_best_response_score, as the fraction sum / over (0.0 is 0 / 1)
EnemyBestResponseScore(stAfterPick, actingSide, store, roles, topN) ==
    MeanOrZero(ScoresOf(SelectSeq(EvaluateAll(stAfterPick, Other(actingSide),
                                              CandidateHeroes(stAfterPick, store),
                                              store, roles),
                                  Viable)),
               topN)

\* round(penalty_factor * enemy_resp, 6) with the factor in hundredths and
\* the response as a fraction: the whole part of sum / (100 * over) is
\* multiplied first, which keeps the products small.
Penalty(factor, resp) ==
    LET d == 100 * resp.over
    IN  factor * (resp.sum \div d) + RoundDiv(factor * (resp.sum % d), d)

\* round(float(ev["baseScore"]) - penalty_factor * enemy_resp, 6)
Penalised(base, factor, resp) ==
    LET d == 100 * resp.over
    IN  base - factor * (resp.sum \div d) + RoundDiv(-(factor * (resp.sum % d)), d)

\* Faulty variant: every following pick counts as the opponent's answer.
AnyPickFollows(action, side) == action.type = "pick"

\* `n_action and n_action.get("type") == "pick" and n_action.get("side") != side`
OpponentPicksNext(action, side) ==
    action # NoAction /\ action.type = "pick" /\ action.side # side

\* ev["score"] and ev["lookaheadPenalty"] once the opponent's answer is known
Answered(ev, factor, resp) ==
    [ev EXCEPT !.score = Penalised(ev.baseScore, factor, resp),
               !.lookaheadPenalty = Penalty(factor, resp)]

\* The candidate after `n_idx, n_action, n_progress = _get_current_action(
\* simulated)`: penalised when the opponent picks next.
LookedAt(simulated, nxt, side, ev, store, roles, cfg) ==
    IF OpponentPicksNext(nxt.action, side)
    THEN Answered(ev, cfg.penaltyFactor,
                  EnemyBestResponseScore(
                      [simulated EXCEPT !.turnIndex = nxt.idx,
                                        !.actionProgress = nxt.progress],
                      side, store, roles, cfg.enemyTopN))
    ELSE [ev EXCEPT !.score = ev.baseScore]

\* The body of the loop over the beam: the candidate with its final score,
\* for simulated = _apply_action(state, ev["hero"]).
Lookahead(st, side, ev, store, roles, cfg) ==
    LookedAt(ApplyAction(st, ev.hero), GetCurrentAction(ApplyAction(st, ev.hero)),
             side, ev, store, roles, cfg)

\* evals[:6] and recs[:12]
PickLimit == 6
BanLimit == 12

\* beam = evals[:max(1, min(beamWidth, len(evals)))] when the lookahead is
\* enabled
BeamWidth(cfg, evals) ==
    IF cfg.enabled THEN Min(Max(cfg.beamWidth, 1), Len(evals)) ELSE 0

\* The candidates with the beam looked at.
Beam(st, side, evals, width, store, roles, cfg) ==
    [i \in 1..Len(evals) |->
        IF i <= width THEN Lookahead(st, side, evals[i], store, roles, cfg)
        ELSE evals[i]]

\* `if not evals: return []`, else the second sort and the cut
Reranked(st, side, evals, store, roles, cfg) ==
    IF evals = <<>> THEN <<>>
    ELSE Take(SortRanked(Beam(st, side, evals, BeamWidth(cfg, evals), store, roles, cfg),
                         "score"),
              PickLimit)

\* _recommend_pick
RecommendPick(st, action, store, roles, cfg) ==
    Reranked(st, action.side,
             SortRanked(SelectSeq(EvaluateAll(st, action.side,
                                              CandidateHeroes(st, store),
                                              store, roles),
                                  Viable),
                        "baseScore"),
             store, roles, cfg)

\* Faulty variant: a hero that fits no open role gets no fallback.
RoleFitNoFallback(poss, enemyOpen) == {r \in Range(poss) : r \in enemyOpen}

\* sorted([r for r in poss if r in enemy_open]) or poss, as a set
RoleFit(poss, enemyOpen) ==
    LET fit == {r \in Range(poss) : r \in enemyOpen}
    IN  IF fit # {} THEN fit ELSE Range(poss)

\* _clamp((len(role_fit) / max(len(roles), 1)) * 15.0), in millionths
FitBonus(roleFit, roles) ==
    RoundDiv(100 * Clamp((Cardinality(roleFit) * 15 * Point) \div Max(Len(roles), 1)),
             (100 * Point) \div PerPoint6)

\* enemy_open = set(enemy_assign.get("openRoles") or roles)
EnemyOpen(enemyAssign, roles) ==
    Range(IF enemyAssign.openRoles # <<>> THEN enemyAssign.openRoles ELSE roles)

\* poss = profile.get("possibleRoles") or roles
PossibleOr(profile, roles) ==
    IF profile.possibleRoles # <<>> THEN profile.possibleRoles ELSE roles

\* The body of the loop over the ban candidates: nothing when no role fits
\* or the hero cannot be evaluated, else the evaluation with the fit bonus.
BanTotal(asEnemy, roleFit, roles) ==
    IF roleFit = {} \/ asEnemy = NoEval THEN NoEval
    ELSE LET total == asEnemy.baseScore + FitBonus(roleFit, roles)
         IN  [asEnemy EXCEPT !.score = total, !.baseScore = total,
                             !.predictedRoles = roleFit]

ScoreBans(st, enemy, candidates, enemyOpen, store, roles) ==
    [i \in 1..Len(candidates) |->
        BanTotal(EvaluatePickCandidate(st, enemy, candidates[i], store, roles),
                 RoleFit(PossibleOr(store[candidates[i]], roles), enemyOpen),
                 roles)]

\* recs.sort(key=(tierScore, score), reverse=True) and recs[:12]
RankedBans(all) ==
    Take(SortRanked(SelectSeq(all, LAMBDA ev : ev # NoEval), "score"), BanLimit)

\* _recommend_ban
RecommendBan(st, action, store, roles) ==
    RankedBans(ScoreBans(st, Other(action.side), CandidateHeroes(st, store),
                         EnemyOpen(AssignmentForSide(st.picks[Other(action.side)],
                                                     store, roles),
                                   roles),
                         store, roles))

\* The fields _composition_block copies from an assignment.
CompositionOf(a) ==
    [isFeasible |-> a.isFeasible, bestAssignment |-> a.bestAssignment,
     openRoles |-> a.openRoles, feasibilityScore |-> a.feasibilityScore,
     validAssignments |-> a.validAssignments,
     maxAssignments |-> a.maxAssignments]

\* _composition_block
CompositionBlock(st, side, store, roles) ==
    CompositionOf(AssignmentForSide(st.picks[side], store, roles))

\* {**LOOKAHEAD_DEFAULT, **lookahead_cfg}
LookaheadEff(cfg) == cfg @@ LOOKAHEAD_DEFAULT

\* "turn": None
NoTurn == [index |-> -1, limit |-> 0, progress |-> 0, remaining |-> 0]

\* An entry of "recommendations", with the debug block of a debug request
\* and the finalScore its topCandidatesRaw row carries: score in
\* ten-thousandths, baseScore, finalScore and lookaheadPenalty in millionths.
Item(r) ==
    [hero |-> r.hero,
     score |-> RoundDiv(r.score, PerPoint6 \div PerPoint4),
     tierScore |-> r.tierScore,
     predictedRoles |-> r.predictedRoles,
     components |-> r.components,
     debug |-> [baseScore |-> r.baseScore, phase |-> r.phase,
                lookaheadPenalty |-> r.lookaheadPenalty,
                finalScore |-> r.score]]

\* Faulty variant: the draft is never taken as finished.
ScriptExhaustedNever(cur) == FALSE

\* `if not action`
ScriptExhausted(cur) == cur.action = NoAction

\* recs = _recommend_pick(...) if action["type"] == "pick" else
\* _recommend_ban(...)
Recommendations(action, settled, store, roles, cfg) ==
    IF action.type = "pick" THEN RecommendPick(settled, action, store, roles, cfg)
    ELSE RecommendBan(settled, action, store, roles)

\* The two dicts recommend_from_payload returns: the one of a finished
\* draft and the one of a turn.  mode and side are "null" for None;
\* warnings and the message are left out.
Answer(cur, settled, composition, recs) ==
    IF ScriptExhausted(cur)
    THEN [mode |-> "null", side |-> "null", turn |-> NoTurn,
          composition |-> composition, recommendations |-> <<>>,
          normalizedState |-> settled]
    ELSE [mode |-> cur.action.type, side |-> cur.action.side,
          turn |-> [index |-> cur.idx, limit |-> cur.action.limit,
                    progress |-> cur.progress,
                    remaining |-> Max(cur.action.limit - cur.progress, 0)],
          composition |-> composition,
          recommendations |-> [i \in 1..Len(recs) |-> Item(recs[i])],
          normalizedState |-> settled]

\* The answer for the state with turnIndex and actionProgress set from
\* _get_current_action.
Settled(cur, settled, p, store, roles) ==
    Answer(cur, settled,
           [s \in Sides |-> CompositionBlock(settled, s, store, roles)],
           Recommendations(cur.action, settled, store, roles,
                           LookaheadEff(p.lookahead)))

\* recommend_from_payload for a normalised state
RecommendResponse(st, p, store, roles) ==
    Settled(GetCurrentAction(st),
            [st EXCEPT !.turnIndex = GetCurrentAction(st).idx,
                       !.actionProgress = GetCurrentAction(st).progress],
            p, store, roles)

----------------------------------------------------------------------------
(* Requests against recommend_from_payload *)

\* A profile as _build_profiles stores it: powers in hundredths and metas
\* in hundredths of a point, one per possible role; baseMeta is the rounded
\* mean of the role metas.
Profile(possible, powers, metas, tier, strong, countered) ==
    LET at(r) == CHOOSE i \in 1..Len(possible) : possible[i] = r
    IN  [possibleRoles |-> possible,
         rolePower |-> [r \in Range(possible) |-> powers[at(r)]],
         roleMeta |-> [r \in Range(possible) |-> 100 * metas[at(r)]],
         baseMeta |-> RoundDiv(100 * SumSeq(metas), Len(metas)),
         bestTierScore |-> tier,
         strongAgainst |-> strong,
         counteredBy |-> countered]

\* The store the requests run against: sixteen heroes, from heroes with one
\* role to heroes with all five, over every tier, with matchup figures
\* between some of them.
RecStore ==
    << Profile(<<"exp_lane">>, <<90>>, <<8250>>, TIER_SCORE.SS,
               (9 :> 80), (4 :> 50)),
       Profile(<<"jungle">>, <<85>>, <<7800>>, TIER_SCORE.S,
               (4 :> 70) @@ (7 :> 35), (12 :> 40)),
       Profile(<<"jungle">>, <<70>>, <<9050>>, TIER_SCORE.SS,
               (2 :> 25), EmptyMap),
       Profile(<<"mid_lane">>, <<80>>, <<7425>>, TIER_SCORE.S,
               (2 :> 55), (9 :> 20)),
       Profile(<<"gold_lane">>, <<75>>, <<6600>>, TIER_SCORE.A,
               (9 :> 45) @@ (13 :> 30), (2 :> 65) @@ (10 :> 15)),
       Profile(<<"roam">>, <<70>>, <<6000>>, TIER_SCORE.A,
               EmptyMap, (4 :> 100) @@ (9 :> 100)),
       Profile(<<"exp_lane", "jungle">>, <<80, 60>>, <<7000, 6400>>, TIER_SCORE.A,
               (4 :> 100) @@ (9 :> 100) @@ (13 :> 100), (2 :> 10)),
       Profile(<<"jungle", "mid_lane">>, <<70, 70>>, <<5500, 7300>>, TIER_SCORE.S,
               (10 :> 40), (7 :> 60)),
       Profile(<<"mid_lane", "gold_lane", "roam">>, <<50, 100, 85>>,
               <<6100, 8800, 7000>>, TIER_SCORE.SS,
               (2 :> 30) @@ (7 :> 5), (7 :> 90)),
       Profile(ROLES, <<70, 70, 70, 70, 70>>, <<6000, 6000, 6000, 6000, 6000>>,
               TIER_SCORE.B, EmptyMap, EmptyMap),
       Profile(ROLES, <<65, 75, 85, 95, 100>>, <<4500, 5000, 5500, 6000, 10000>>,
               TIER_SCORE.A, (2 :> 50) @@ (4 :> 50), (9 :> 75)),
       Profile(<<"gold_lane", "roam">>, <<90, 40>>, <<6650, 3000>>, TIER_SCORE.B,
               (2 :> 90), (4 :> 35)),
       Profile(<<"exp_lane", "roam">>, <<70, 70>>, <<4500, 4500>>, TIER_SCORE.C,
               EmptyMap, (7 :> 100)),
       Profile(<<"mid_lane">>, <<55>>, <<3000>>, TIER_SCORE.D,
               (10 :> 100) @@ (7 :> 100) @@ (2 :> 100), EmptyMap),
       Profile(<<"exp_lane">>, <<100>>, <<7400>>, TIER_SCORE.A,
               (13 :> 20), (1 :> 20)),
       Profile(<<"roam", "jungle">>, <<95, 45>>, <<9000, 4200>>, TIER_SCORE.S,
               (4 :> 15), (2 :> 15)) >>

\* Two drafts, hero by hero in the order of the script (heroes above 16
\* have no profile).
DraftLines ==
    << <<17, 18, 16, 19, 15, 20,  2, 4, 9, 7, 10, 13,  21, 14, 22, 23,  5, 6, 11, 8>>,
       <<14, 13, 17, 18, 19, 20,  11, 2, 8, 10, 1, 5,  6, 12, 21, 22,  9, 4, 7, 16>> >>

\* The state a draft has reached after its first k heroes were applied one
\* at a time from the empty state: each hero stands in the list of the step
\* its slot belongs to, and the counters name the step of the next slot.
Played(line, k) ==
    LET Held(type, side) ==
            LET slots == SelectSeq([i \in 1..k |-> i],
                             LAMBDA i :
                                 /\ DRAFT_V2_SEQUENCE[StepOfSlot(i - 1) + 1].type = type
                                 /\ DRAFT_V2_SEQUENCE[StepOfSlot(i - 1) + 1].side = side)
            IN  [j \in 1..Len(slots) |-> line[slots[j]]]
        step == StepOfSlot(k)
    IN  [turnIndex |-> step,
         actionProgress |-> IF k >= TotalSlots THEN 0 ELSE k - SlotsBefore(step),
         picks |-> [s \in Sides |-> Held("pick", s)],
         bans |-> [s \in Sides |-> Held("ban", s)]]

\* The "lookahead" objects the requests carry: none, switched off, and
\* narrower or wider settings than the defaults.
LookaheadConfigs ==
    { EmptyMap,
      [enabled |-> FALSE],
      [beamWidth |-> 2, enemyTopN |-> 1, penaltyFactor |-> 50],
      [beamWidth |-> 0, enemyTopN |-> 2] }

\* The request a client sends for a state it holds.
Request(st, turn, cfg) ==
    [picks |-> [s \in Sides |-> List(st.picks[s])],
     bans |-> [s \in Sides |-> List(st.bans[s])],
     turnIndex |-> turn, actionProgress |-> st.actionProgress,
     lookahead |-> cfg]

\* Requests of a client that follows the script.
ScriptedPayloads ==
    { Request(Played(DraftLines[d], k), Played(DraftLines[d], k).turnIndex, cfg) :
        d \in 1..Len(DraftLines), k \in 0..Len(DraftLines[1]),
        cfg \in LookaheadConfigs }

\* Requests that carry a turnIndex ahead of the lists they hold.
AheadPayloads ==
    { Request(Played(DraftLines[d], k), t, EmptyMap) :
        d \in 1..Len(DraftLines), k \in {9, 12, 20}, t \in {12, 14, 15} }

\* Requests for drafts in which the side on the clock has picked two heroes
\* that play the jungle alone: the ally side before its third pick, the
\* enemy side before its third pick.
DeadEndPayloads ==
    { Request(Played(line, Len(line)), Played(line, Len(line)).turnIndex, cfg) :
        line \in { <<17, 18, 16, 19, 15, 20,  2, 4, 9, 3>>,
                   <<17, 18, 16, 19, 15, 20,  1, 2, 3, 4, 5>> },
        cfg \in LookaheadConfigs }

RecommendPayloads == ScriptedPayloads \cup AheadPayloads \cup DeadEndPayloads

InitRecommend ==
    /\ files = <<>>
    /\ cache = ColdCache
    /\ calls = <<>>
    /\ phase = "request"
    /\ error = ""
    /\ state = NoState
    /\ last = NoOp
    /\ heroes = <<>>
    /\ assign = NoAssign
    /\ response = NoResponse
    /\ profiles = RecStore
    /\ payload \in RecommendPayloads

\* POST /draft/v2/recommend: recommend_from_payload on the request body.
Recommend ==
    /\ phase = "request"
    /\ LET r == NormalizeDraftState(payload)
       IN  IF r.ok
           THEN LET out == RecommendResponse(r.state, payload, profiles, ROLES)
                IN  /\ response' = out
                    /\ state' = out.normalizedState
                    /\ phase' = "answered"
                    /\ error' = ""
           ELSE /\ response' = response
                /\ state' = NoState
                /\ phase' = "rejected"
                /\ error' = r.error
    /\ last' = [op |-> "recommend", hero |-> 0, before |-> NoState]
    /\ UNCHANGED <<payload, profiles, heroes, assign, files, cache, calls>>

NextRecommend == Recommend

SpecRecommend == InitRecommend /\ [][NextRecommend]_vars

----------------------------------------------------------------------------
(* Claims about the recommender, checked under SpecRecommend *)

Recs == response.recommendations

\* C14: every hero returned by recommend, in the pick branch and in the ban
\* branch, is a key of the profile store and is in none of the four
\* pick/ban lists of the input state, so applying it changes the state.
C14_RecommendedHeroesAreFreeAndKnown ==
    phase = "answered" =>
        \A i \in 1..Len(Recs) :
            /\ Recs[i].hero \in DOMAIN profiles
            /\ Recs[i].hero \notin AllHeroes(state)
            /\ ApplyAction(state, Recs[i].hero) # state

\* A ban request answered with heroes while heroes of the store stand in
\* the pick lists and in the ban lists.
C14_Witness ==
    /\ phase = "answered"
    /\ response.mode = "ban"
    /\ Recs # <<>>
    /\ \E s \in Sides : Range(state.bans[s]) \cap DOMAIN profiles # {}
    /\ \E s \in Sides : Range(state.picks[s]) \cap DOMAIN profiles # {}

\* C15: in recommend mode, for a pick action and for a ban action alike, no
\* returned candidate has a feasibility component <= 0.
C15_NoInfeasibleCandidateReturned ==
    phase = "answered" =>
        \A i \in 1..Len(Recs) : Recs[i].components["feasibility"] > 0

\* The sort key of an entry does not fall below that of another entry.
NotBelow(a, b) ==
    \/ a.tierScore > b.tierScore
    \/ a.tierScore = b.tierScore /\ a.score >= b.score

\* C16: the recommendation list is sorted non-increasingly by the pair
\* (best tier score, final score) compared lexicographically, and holds at
\* most 12 entries for a ban action and at most 6 for a pick action.
C16_SortedAndCapped ==
    phase = "answered" =>
        /\ \A i, j \in 1..Len(Recs) : i < j => NotBelow(Recs[i], Recs[j])
        /\ response.mode = "ban" => Len(Recs) <= 12
        /\ response.mode = "pick" => Len(Recs) <= 6

\* A pick request with more than six viable candidates, answered with six
\* of them that are not in the order of their base scores: within one tier
\* the lookahead has put an entry in front of one with a higher base score.
C16_Witness ==
    /\ phase = "answered"
    /\ response.mode = "pick"
    /\ Len(Recs) = 6
    /\ Len(CandidateHeroes(state, profiles)) > 6
    /\ \E i, j \in 1..Len(Recs) :
           /\ i < j
           /\ Recs[i].tierScore = Recs[j].tierScore
           /\ Recs[i].debug.baseScore < Recs[j].debug.baseScore

\* The lookahead settings the request runs with.
Settings == LookaheadEff(payload.lookahead)

\* The viable candidates of a side in a state, each with its evaluation.
ViableFor(st, side) ==
    { ev \in { EvaluatePickCandidate(st, side, h, profiles, ROLES) :
                   h \in DOMAIN profiles \ AllHeroes(st) } :
          ev.components["feasibility"] > 0 }

\* The beam: the viable candidates that fewer than `width` others precede
\* in the order of (tier score, base score), equals in the order of the
\* store.
InBeam(hero, viable, width) ==
    LET me == CHOOSE ev \in viable : ev.hero = hero
        ahead == { ev \in viable :
                       \/ Outranks(ev, me, "baseScore")
                       \/ ~Outranks(me, ev, "baseScore") /\ ev.hero < hero }
    IN  Cardinality(ahead) < Max(width, 1)

\* The sum and the number of the n highest base scores of a set of
\* evaluations (all of them when there are fewer than n).
RECURSIVE TopSum(_, _)
TopSum(evs, n) ==
    IF evs = {} \/ n <= 0 THEN [sum |-> 0, over |-> 0]
    ELSE LET top == CHOOSE ev \in evs : \A o \in evs : ev.baseScore >= o.baseScore
             rest == TopSum(evs \ {top}, n - 1)
         IN  [sum |-> top.baseScore + rest.sum, over |-> rest.over + 1]

\* final is base - factor / 100 * sum / over rounded to the nearest
\* millionth (base when over = 0).
IsPenalised(final, base, factor, sum, over) ==
    IF over = 0 THEN final = base
    ELSE LET d == 100 * over
             whole == (base - final) - factor * (sum \div d)
         IN  NearestTo(whole, factor * (sum % d), d)

\* C17: with lookahead enabled, for each beam candidate: if the action that
\* follows its simulated apply is a pick by the opposing side, final = base
\* - penalty_factor * (mean of the top enemy_top_n base scores of the
\* opposing side's feasible candidates in the simulated state); otherwise
\* final = base; a candidate outside the beam keeps its base score.  Base
\* 80, response mean 60 and factor 0.25 give final 65.
C17_LookaheadPenalisesOpponentAnswer ==
    /\ Penalised(80 * PerPoint6, 25, [sum |-> 60 * PerPoint6, over |-> 1])
           = 65 * PerPoint6
    /\ (phase = "answered" /\ response.mode = "pick" /\ Settings.enabled) =>
           LET viable == ViableFor(state, response.side)
           IN  \A i \in 1..Len(Recs) :
                   LET rec == Recs[i]
                       simulated == ApplyAction(state, rec.hero)
                       follows == GetCurrentAction(simulated).action
                   IN  IF /\ InBeam(rec.hero, viable, Settings.beamWidth)
                          /\ follows.type = "pick"
                          /\ follows.side = Other(response.side)
                       THEN LET top == TopSum(ViableFor(simulated, Other(response.side)),
                                              Settings.enemyTopN)
                            IN  IsPenalised(rec.debug.finalScore, rec.debug.baseScore,
                                            Settings.penaltyFactor, top.sum, top.over)
                       ELSE rec.debug.finalScore = rec.debug.baseScore

\* A pick request under a beam of two, answered with an entry that carries
\* a penalty and an entry from outside the beam.
C17_Witness ==
    /\ phase = "answered"
    /\ response.mode = "pick"
    /\ Settings.enabled
    /\ Settings.beamWidth = 2
    /\ \E i \in 1..Len(Recs) :
           /\ Recs[i].debug.lookaheadPenalty > 0
           /\ Recs[i].debug.finalScore < Recs[i].debug.baseScore
    /\ \E i \in 1..Len(Recs) :
           ~InBeam(Recs[i].hero, ViableFor(state, response.side), Settings.beamWidth)

\* C18: in the ban branch each candidate's final score is its evaluator
\* base score, computed as if the opposing side picked it, plus a role-fit
\* bonus of |candidate.possible_roles n opposing side's open roles| / 5 * 15,
\* for every candidate and every opposing composition.
C18_BanBonusCountsOpenRolesOnly ==
    (phase = "answered" /\ response.mode = "ban") =>
        LET opposing == Other(response.side)
            open == Range(response.composition[opposing].openRoles)
        IN  \A i \in 1..Len(Recs) :
                LET hero == Recs[i].hero
                    base == EvaluatePickCandidate(state, opposing, hero,
                                                  profiles, ROLES).baseScore
                    fit == Range(profiles[hero].possibleRoles) \cap open
                IN  Recs[i].debug.finalScore
                        = base + Cardinality(fit) * 3 * PerPoint6

\* The evaluator's outputs for every side and every hero of the store in
\* the state a request was answered for.
Evaluations ==
    { EvaluatePickCandidate(state, s, h, profiles, ROLES) :
          s \in Sides, h \in DOMAIN profiles }

\* C19: for every evaluator output (any state, side and known hero) each of
\* the six components lies in [0, 100] and the blended base score is at
\* most the largest component, the phase weights being non-negative and
\* summing to 1.0 in each of the three phases.
C19_ComponentsBoundedBaseBelowMax ==
    /\ \A ph \in {"early", "mid", "late"} :
           LET w == PhaseWeights[ph]
           IN  /\ \A c \in ComponentNames : w[c] >= 0
               /\ w.meta + w.counter + w.synergy + w.deny + w.flex + w.feasibility = 100
    /\ phase = "answered" =>
           \A ev \in Evaluations :
               /\ \A c \in ComponentNames :
                      /\ ev.exact[c] >= 0 /\ ev.exact[c] <= 100 * Point
                      /\ ev.components[c] >= 0 /\ ev.components[c] <= 100 * PerPoint4
               /\ \E c \in ComponentNames :
                      ev.baseScore * (Point \div PerPoint4)
                          <= ev.exact[c] * (PerPoint6 \div PerPoint4)

\* A late-phase evaluation whose counter component stands at the upper
\* limit, with a base score below it.
C19_Witness ==
    /\ phase = "answered"
    /\ \E ev \in Evaluations :
           /\ ev.phase = "late"
           /\ ev.exact.counter = 100 * Point
           /\ ev.baseScore < 100 * PerPoint6
           /\ ev.exact.synergy = 0

\* The state normalize_draft_state hands to recommend for the request.
Normalised == NormalizeDraftState(payload).state

\* C20: when the script is exhausted (no live step at or after turn_index),
\* recommend returns mode null, an empty recommendation list, and a
\* composition block computed for both sides.
C20_ExhaustedScriptAnswersNull ==
    (phase = "answered" /\ GetCurrentAction(Normalised).action = NoAction) =>
        /\ response.mode = "null"
        /\ response.side = "null"
        /\ response.recommendations = <<>>
        /\ DOMAIN response.composition = Sides
        /\ \A s \in Sides :
               LET a == AssignmentForSide(Normalised.picks[s], profiles, ROLES)
                   block == response.composition[s]
               IN  /\ block.isFeasible = a.isFeasible
                   /\ block.bestAssignment = a.bestAssignment
                   /\ block.openRoles = a.openRoles
                   /\ block.feasibilityScore = a.feasibilityScore
                   /\ block.validAssignments = a.validAssignments
                   /\ block.maxAssignments = a.maxAssignments

\* A request whose turnIndex lies before the end of the script, but whose
\* remaining steps are all spent because both sides hold five picks.
C20_Witness ==
    /\ phase = "answered"
    /\ response.mode = "null"
    /\ payload.turnIndex < Len(DRAFT_V2_SEQUENCE)
    /\ \A s \in Sides : Len(state.picks[s]) = ROLE_COUNT
    /\ response.composition["ally"].isFeasible

----------------------------------------------------------------------------
(* The profile store: _build_profiles over load_role_pool and              *)
(* _load_tier_data, and the two module-level caches.                       *)
(*                                                                         *)
(* A file is its fingerprint (st_mtime_ns, strictly growing with every     *)
(* write; Absent for a missing file) and its content: "good" reads and     *)
(* validates, "bad" is malformed JSON (or, for the role pool, fails        *)
(* validation), "list" is well-formed JSON that is not an object.  A       *)
(* generation is named by the fingerprints of the contents it was built    *)
(* from.                                                                   *)

MaxStamp == 3           \* largest fingerprint a file gets

\* `... if path.exists() else -1`
Absent == -1

FileNames == {"pool", "override", "tier"}
Contents == {"good", "bad", "list"}

NoFile == [stamp |-> Absent, content |-> "none"]

\* pool_mtime_ns, override_mtime_ns, tier_mtime_ns
Fingerprints(fs) ==
    [pool |-> fs.of["pool"].stamp, override |-> fs.of["override"].stamp,
     tier |-> fs.of["tier"].stamp]

\* Faulty variant: the tier list's fingerprint is not compared.
CacheHitIgnoringTier(refresh, c, fp) ==
    /\ ~refresh
    /\ c.data # NoGen
    /\ c.pool_mtime_ns = fp.pool
    /\ c.override_mtime_ns = fp.override

\* The test that short-circuits _build_profiles
CacheHit(refresh, c, fp) ==
    /\ ~refresh
    /\ c.data # NoGen
    /\ c.pool_mtime_ns = fp.pool
    /\ c.override_mtime_ns = fp.override
    /\ c.tier_mtime_ns = fp.tier

\* cache_key of load_role_pool
PoolKey(fs) ==
    [pool |-> fs.of["pool"].stamp, override |-> fs.of["override"].stamp, tier |-> None]

\* load_role_pool(refresh): its outcome ("ok", or "config" for a
\* DraftV2ConfigError), the role pool it returns (named by the fingerprints
\* of the files read) and _ROLE_POOL_CACHE afterwards.
LoadRolePool(refresh, fs, rc) ==
    IF fs.of["pool"].stamp = Absent
    THEN [outcome |-> "config", gen |-> NoGen, rolePool |-> rc]
    ELSE IF ~refresh /\ rc.data # NoGen /\ rc.cache_key = PoolKey(fs)
    THEN [outcome |-> "ok", gen |-> rc.data, rolePool |-> rc]
    ELSE IF fs.of["pool"].content # "good"
    THEN [outcome |-> "config", gen |-> NoGen, rolePool |-> rc]
    ELSE IF fs.of["override"].stamp # Absent /\ fs.of["override"].content = "bad"
    THEN [outcome |-> "config", gen |-> NoGen, rolePool |-> rc]
    ELSE [outcome |-> "ok", gen |-> PoolKey(fs),
          rolePool |-> [cache_key |-> PoolKey(fs), data |-> PoolKey(fs)]]

\* _load_tier_data, and the `tier.get("roles")` that follows it: "ok",
\* "config" for a missing or malformed file, "internal" (an exception that
\* is no DraftV2ConfigError) for JSON that is not an object.
LoadTierData(fs) ==
    IF fs.of["tier"].stamp = Absent \/ fs.of["tier"].content = "bad" THEN "config"
    ELSE IF fs.of["tier"].content = "list" THEN "internal"
    ELSE "ok"

\* The rebuild of _build_profiles once load_role_pool has answered: the
\* outcome, the (data, meta) returned and the two caches afterwards.
Rebuilt(fp, pool, tierOutcome, c) ==
    IF pool.outcome # "ok" \/ tierOutcome # "ok"
    THEN [outcome |-> IF pool.outcome # "ok" THEN pool.outcome ELSE tierOutcome,
          rebuilt |-> TRUE, data |-> NoGen, meta |-> NoGen,
          cache |-> [c EXCEPT !.rolePool = pool.rolePool]]
    ELSE [outcome |-> "ok", rebuilt |-> TRUE,
          data |-> [pool.gen EXCEPT !.tier = fp.tier],
          meta |-> [pool.gen EXCEPT !.tier = fp.tier],
          cache |-> [profile |-> [pool_mtime_ns |-> fp.pool,
                                  override_mtime_ns |-> fp.override,
                                  tier_mtime_ns |-> fp.tier,
                                  data |-> [pool.gen EXCEPT !.tier = fp.tier],
                                  meta |-> [pool.gen EXCEPT !.tier = fp.tier]],
                     rolePool |-> pool.rolePool]]

\* _build_profiles(refresh)
BuildProfiles(refresh, fs, c) ==
    IF CacheHit(refresh, c.profile, Fingerprints(fs))
    THEN [outcome |-> "ok", rebuilt |-> FALSE, data |-> c.profile.data,
          meta |-> c.profile.meta, cache |-> c]
    ELSE Rebuilt(Fingerprints(fs), LoadRolePool(refresh, fs, c.rolePool),
                 LoadTierData(fs), c)

\* The three files as a deployment ships them: the role pool and the tier
\* list are there, the overrides file may be; nothing is cached yet.
InitStore ==
    /\ \E o \in BOOLEAN :
           files = [of |-> [f \in FileNames |->
                              IF f = "override" /\ ~o THEN NoFile
                              ELSE [stamp |-> 1, content |-> "good"]],
                    clock |-> 1]
    /\ cache = ColdCache
    /\ calls = <<>>
    /\ payload = NoPayload
    /\ phase = "store"
    /\ error = ""
    /\ state = NoState
    /\ last = NoOp
    /\ profiles = NoProfiles
    /\ heroes = <<>>
    /\ assign = NoAssign
    /\ response = NoResponse

\* A source file is written: its fingerprint grows past every earlier one.
Touch(f, content) ==
    /\ phase = "store"
    /\ files.clock < MaxStamp
    /\ files' = [of |-> [files.of EXCEPT ![f] = [stamp |-> files.clock + 1,
                                                 content |-> content]],
                 clock |-> files.clock + 1]
    /\ last' = [op |-> "touch", refresh |-> FALSE, before |-> cache]
    /\ UNCHANGED <<payload, phase, error, state, profiles, heroes, assign, response,
                   cache, calls>>

\* A source file is deleted.
Remove(f) ==
    /\ phase = "store"
    /\ files.of[f] # NoFile
    /\ files' = [files EXCEPT !.of[f] = NoFile]
    /\ last' = [op |-> "remove", refresh |-> FALSE, before |-> cache]
    /\ UNCHANGED <<payload, phase, error, state, profiles, heroes, assign, response,
                   cache, calls>>

\* A read of the profile store: _build_profiles(refresh), run to its end.
Read(refresh) ==
    /\ phase = "store"
    /\ response' = BuildProfiles(refresh, files, cache)
    /\ cache' = response'.cache
    /\ last' = [op |-> "read", refresh |-> refresh, before |-> cache]
    /\ UNCHANGED <<payload, phase, error, state, profiles, heroes, assign, files, calls>>

\* get_draft_v2_meta: load_role_pool(refresh) alone, the profile cache is
\* not consulted.
ReadMeta(refresh) ==
    /\ phase = "store"
    /\ cache' = [cache EXCEPT !.rolePool = LoadRolePool(refresh, files, cache.rolePool).rolePool]
    /\ last' = [op |-> "meta", refresh |-> refresh, before |-> cache]
    /\ UNCHANGED <<payload, phase, error, state, profiles, heroes, assign, response,
                   files, calls>>

NextStore ==
    \/ \E f \in FileNames, content \in Contents : Touch(f, content)
    \/ \E f \in FileNames : Remove(f)
    \/ \E refresh \in BOOLEAN : Read(refresh)
    \/ \E refresh \in BOOLEAN : ReadMeta(refresh)

SpecStore == InitStore /\ [][NextStore]_vars

\* The fingerprints a cache holds.
CachedFingerprints(c) ==
    [pool |-> c.pool_mtime_ns, override |-> c.override_mtime_ns, tier |-> c.tier_mtime_ns]

\* The read that was just made found a filled cache with the fingerprints of
\* the files and did not ask for a refresh.
ReadWasCached ==
    /\ ~last.refresh
    /\ last.before.profile.data # NoGen
    /\ CachedFingerprints(last.before.profile) = Fingerprints(files)

\* C21: over any sequence of file changes and reads, a read without refresh
\* whose three fingerprints equal the cached ones returns the cached
\* generation and rebuilds nothing; any other read that succeeds has rebuilt
\* and left its generation, with the fingerprints of the files, as the one
\* the cache holds; a successful read returns data built from the files as
\* they are at that read; a rebuild that fails with a config error leaves
\* the cached generation and its fingerprints as they were.
ReadsFollowFingerprints ==
    last.op = "read" =>
        /\ ReadWasCached =>
                /\ response.outcome = "ok"
                /\ ~response.rebuilt
                /\ response.data = last.before.profile.data
                /\ cache = last.before
        /\ ~ReadWasCached => response.rebuilt
        /\ (~ReadWasCached /\ response.outcome = "ok") =>
                /\ cache.profile.data = response.data
                /\ cache.profile.meta = response.meta
                /\ CachedFingerprints(cache.profile) = Fingerprints(files)
        /\ response.outcome = "ok" =>
                /\ response.data = Fingerprints(files)
                /\ response.meta = Fingerprints(files)
        /\ response.outcome = "config" => cache.profile = last.before.profile

\* A rebuild failed with a config error while the cache held a generation.
FailedRebuildOverWarmCache ==
    /\ last.op = "read"
    /\ response.outcome = "config"
    /\ response.rebuilt
    /\ last.before.profile.data # NoGen
    /\ CachedFingerprints(last.before.profile) # Fingerprints(files)

----------------------------------------------------------------------------
(* The two POST endpoints of main.py over assign_from_payload and          *)
(* recommend_from_payload.                                                 *)

MaxWarnings == 31       \* most warnings a store's meta holds

\* meta["warnings"] of the store built from the files: one entry for every
\* warning that validating and merging them gave.
StoreWarnings(fs) == [i \in 1..fs.warnings |-> [kind |-> "store", heroes |-> {}]]

\* warnings = list(meta.get("warnings", [])[:30]), and the one warning both
\* handlers append when the request names heroes the store does not hold.
Warnings(meta, unknown) ==
    IF unknown = {} THEN Take(meta, 30)
    ELSE Append(Take(meta, 30), [kind |-> "unknown", heroes |-> unknown])

\* The two except clauses of an endpoint: DraftV2ConfigError and
\* DraftV2RequestError give 400, any other exception 500; a returned dict is
\* sent with 200.
HttpAnswer(raised, body) ==
    [status |-> IF raised = "none" THEN 200
                ELSE IF raised \in {"config", "request"} THEN 400 ELSE 500,
     raised |-> raised, body |-> body]

\* assign_from_payload once _build_profiles has returned (data, meta): hs
\* is the parsed hero list, solved the answer of _assignment_for_side on it.
AssignFromPayload(raw, hs, solved, store, meta) ==
    IF ParseFails(raw) \/ Len(hs) > ROLE_COUNT
    THEN HttpAnswer("request", NoAssign)
    ELSE HttpAnswer("none",
                    [heroes |-> hs, assignment |-> solved,
                     warnings |-> Warnings(meta, {h \in Range(hs) : ~HasProfile(h, store)})])

\* heroes_raw: payload["heroes"], or the picks of the side the payload
\* names; str(side or "ally").strip().lower(), and a side that is neither
\* ally nor enemy is read as ally.
HeroesRaw(p) ==
    IF p.heroes # Null THEN p.heroes
    ELSE LET side == IF p.side = "" THEN "ally"
                     ELSE IF p.side = " Enemy" THEN "enemy" ELSE p.side
         IN  p.picks[IF side \in Sides THEN side ELSE "ally"]

\* recommend_from_payload once _build_profiles has returned (data, meta): r
\* is the outcome of normalize_draft_state, body the answer for its state.
RecommendFromPayload(r, body, store, meta) ==
    IF ~r.ok THEN HttpAnswer("request", NoResponse)
    ELSE HttpAnswer("none",
                    [answer |-> body,
                     warnings |-> Warnings(meta, {h \in Range(r.state.picks["ally"] \o r.state.picks["enemy"]
                                                               \o r.state.bans["ally"] \o r.state.bans["enemy"]) :
                                                      ~HasProfile(h, store)})])

\* Bodies of POST /api/draft/v2/assign: no side, the two sides in two
\* spellings, a side that is neither; a hero list of its own, one too long,
\* one that is no list.  Heroes 17 and above have no profile.
AssignPayloads ==
    { [heroes |-> Null, side |-> sd,
       picks |-> [s \in Sides |-> IF s = "ally" THEN List(<<1, 4>>)
                                  ELSE List(<<3, 17>>)]] :
        sd \in {"", "ally", "enemy", " Enemy", "middle"} }
    \cup { [heroes |-> hs, side |-> sd, picks |-> [s \in Sides |-> Null]] :
             hs \in {List(<<17>>), List(<<2, 3>>), List(<<1, 2, 4, 5, 6, 7>>), Scalar},
             sd \in {"ally", "middle"} }

\* Bodies of POST /api/draft/v2/recommend: the opening ban, a pick turn
\* with a hero the store does not hold among the picks, a later ban, and a
\* body whose ally picks are no list.
ServiceRecommendPayloads ==
    { Request(Played(line, k), Played(line, k).turnIndex, EmptyMap) :
        line \in {<<1, 2, 3, 4, 5, 6, 21, 9, 7>>}, k \in {0, 7, 9} }
    \cup { [Request(NoState, 0, EmptyMap) EXCEPT !.picks["ally"] = Scalar] }

\* The service before a request: nothing cached, the role pool and the tier
\* list as some deployment left them (the role pool may be missing or
\* unreadable, the tier list unreadable or no JSON object), and the number of
\* warnings their content gives rise to.
InitService ==
    /\ \E pool \in {"good", "bad", "none"}, tier \in Contents,
          w \in {0, 29, 30, MaxWarnings} :
           files = [of |-> [f \in FileNames |->
                              IF (f = "pool" /\ pool = "none") \/ f = "override"
                              THEN NoFile
                              ELSE [stamp |-> 1,
                                    content |-> IF f = "pool" THEN pool ELSE tier]],
                    clock |-> 1, warnings |-> w]
    /\ cache = ColdCache
    /\ calls = <<>>
    /\ payload = NoPayload
    /\ phase = "service"
    /\ error = ""
    /\ state = NoState
    /\ last = NoOp
    /\ profiles = RecStore
    /\ heroes = <<>>
    /\ assign = NoAssign
    /\ response = NoResponse

\* POST /api/draft/v2/assign
DraftV2Assign(p) ==
    /\ phase = "service"
    /\ payload' = p
    /\ cache' = BuildProfiles(FALSE, files, cache).cache
    /\ response' =
           IF BuildProfiles(FALSE, files, cache).outcome # "ok"
           THEN HttpAnswer(BuildProfiles(FALSE, files, cache).outcome, NoAssign)
           ELSE AssignFromPayload(HeroesRaw(p), ParseSideHeroes(HeroesRaw(p)),
                                  AssignmentForSide(ParseSideHeroes(HeroesRaw(p)),
                                                    profiles, ROLES),
                                  profiles, StoreWarnings(files))
    /\ phase' = "answered"
    /\ last' = [op |-> "assign", hero |-> 0, before |-> NoState]
    /\ UNCHANGED <<error, state, profiles, heroes, assign, files, calls>>

\* POST /api/draft/v2/recommend
DraftV2Recommend(p) ==
    /\ phase = "service"
    /\ payload' = p
    /\ cache' = BuildProfiles(FALSE, files, cache).cache
    /\ response' =
           IF BuildProfiles(FALSE, files, cache).outcome # "ok"
           THEN HttpAnswer(BuildProfiles(FALSE, files, cache).outcome, NoResponse)
           ELSE RecommendFromPayload(NormalizeDraftState(p),
                                     RecommendResponse(NormalizeDraftState(p).state, p,
                                                       profiles, ROLES),
                                     profiles, StoreWarnings(files))
    /\ phase' = "answered"
    /\ last' = [op |-> "recommend", hero |-> 0, before |-> NoState]
    /\ UNCHANGED <<error, state, profiles, heroes, assign, files, calls>>

NextService ==
    \/ \E p \in AssignPayloads : DraftV2Assign(p)
    \/ \E p \in ServiceRecommendPayloads : DraftV2Recommend(p)

SpecService == InitService /\ [][NextService]_vars

\* The request just answered found the files readable: _build_profiles
\* returned a store.
StoreWasBuilt == BuildProfiles(FALSE, files, ColdCache).outcome = "ok"

\* C22: the assign and recommend endpoints answer 400 for a request error
\* and 500 for a config error.
C22_StatusFollowsErrorKind ==
    phase = "answered" =>
        /\ response.raised = "request" => response.status = 400
        /\ response.raised = "config" => response.status = 500

\* C23: an assign request that leaves the heroes to the picks of a side
\* and names a side that is neither ally nor enemy is rejected with a
\* request error.
C23_InvalidSideRejected ==
    (/\ phase = "answered"
     /\ last.op = "assign"
     /\ StoreWasBuilt
     /\ payload.heroes = Null
     /\ payload.side \notin {"", "ally", "enemy", " Enemy"})
        => response.raised = "request"

\* C25: every assign or recommend response carries at most 30 warnings.
C25_AtMostThirtyWarnings ==
    (phase = "answered" /\ response.status = 200)
        => Len(response.body.warnings) <= 30

\* The heroes without a profile among the picks the answered request was
\* solved for: the side's picks of a recommend request, the hero list of an
\* assign request.
UnknownPicks(s) ==
    LET hs == IF last.op = "assign" THEN ParseSideHeroes(HeroesRaw(payload))
              ELSE NormalizeDraftState(payload).state.picks[s]
    IN  {h \in Range(hs) : ~HasProfile(h, profiles)}

\* The solver's answer the response carries for side s.
SolvedFor(s) ==
    IF last.op = "assign" THEN response.body.assignment
    ELSE response.body.answer.composition[s]

\* The request just answered is well-formed, met a readable store and holds
\* a hero without a profile among the picks of side s.
AnsweredWithUnknownPick(s) ==
    /\ phase = "answered"
    /\ StoreWasBuilt
    /\ IF last.op = "assign"
       THEN ~ParseFails(HeroesRaw(payload))
            /\ Len(ParseSideHeroes(HeroesRaw(payload))) <= ROLE_COUNT
       ELSE NormalizeDraftState(payload).ok
    /\ UnknownPicks(s) # {}

\* The response reports the heroes without a profile in a warning.
UnknownReported(s) ==
    /\ response.status = 200
    /\ \E i \in 1..Len(response.body.warnings) :
           /\ response.body.warnings[i].kind = "unknown"
           /\ UnknownPicks(s) \subseteq response.body.warnings[i].heroes

----------------------------------------------------------------------------
(* _build_profiles called from several threads: the module takes no lock,  *)
(* so a call is a sequence of steps that other calls interleave with.  A   *)
(* call stats the files, tests the cache and, on a miss, loads and builds  *)
(* (one step, the files being read as they are); it then writes the five   *)
(* fields of _PROFILE_CACHE with five assignments, one step each.          *)

NumThreads == 2         \* threads that call _build_profiles

InitThreads ==
    /\ files = [of |-> [f \in FileNames |->
                          IF f = "override" THEN NoFile
                          ELSE [stamp |-> 1, content |-> "good"]],
                clock |-> 1]
    /\ cache = ColdCache
    /\ calls = [t \in 1..NumThreads |->
                   [pc |-> "idle", step |-> 0, hit |-> FALSE, fp |-> NoGen,
                    data |-> NoGen, meta |-> NoGen]]
    /\ payload = NoPayload
    /\ phase = "store"
    /\ error = ""
    /\ state = NoState
    /\ last = NoOp
    /\ profiles = NoProfiles
    /\ heroes = <<>>
    /\ assign = NoAssign
    /\ response = NoResponse

\* Lines 79-214 of a call without refresh: on a hit the call has its
\* (data, meta) from the cache and returns next; on a miss it holds the
\* generation it built and writes next; a load that raises ends the call.
Enter(t) ==
    /\ calls[t].pc = "idle"
    /\ LET fp == Fingerprints(files)
           b == BuildProfiles(FALSE, files, cache)
       IN  /\ calls' = [calls EXCEPT ![t] =
                  IF b.outcome # "ok" THEN @
                  ELSE [pc |-> IF b.rebuilt THEN "write" ELSE "return",
                        step |-> IF b.rebuilt THEN 1 ELSE 0,
                        hit |-> ~b.rebuilt, fp |-> fp,
                        data |-> b.data, meta |-> b.meta]]
           /\ cache' = [cache EXCEPT !.rolePool = b.cache.rolePool]
    /\ last' = [op |-> "enter", hero |-> t, before |-> NoState]
    /\ UNCHANGED <<payload, phase, error, state, profiles, heroes, assign, response,
                   files>>

\* Lines 217-221, one assignment at a time.
Write(t) ==
    /\ calls[t].pc = "write"
    /\ cache' = [cache EXCEPT !.profile =
           IF calls[t].step = 1 THEN [@ EXCEPT !.pool_mtime_ns = calls[t].fp.pool]
           ELSE IF calls[t].step = 2
           THEN [@ EXCEPT !.override_mtime_ns = calls[t].fp.override]
           ELSE IF calls[t].step = 3 THEN [@ EXCEPT !.tier_mtime_ns = calls[t].fp.tier]
           ELSE IF calls[t].step = 4 THEN [@ EXCEPT !.data = calls[t].data]
           ELSE [@ EXCEPT !.meta = calls[t].meta]]
    /\ calls' = [calls EXCEPT ![t].step = IF @ = 5 THEN 0 ELSE @ + 1,
                              ![t].pc = IF calls[t].step = 5 THEN "return" ELSE "write"]
    /\ last' = [op |-> "write", hero |-> t, before |-> NoState]
    /\ UNCHANGED <<payload, phase, error, state, profiles, heroes, assign, response,
                   files>>

\* `return data, meta` (line 222), or `return _PROFILE_CACHE["data"],
\* _PROFILE_CACHE["meta"]` (line 93): the caller has what the call read.
Return(t) ==
    /\ calls[t].pc = "return"
    /\ response' = [hit |-> calls[t].hit, fp |-> calls[t].fp,
                    data |-> calls[t].data, meta |-> calls[t].meta]
    /\ calls' = [calls EXCEPT ![t] = [pc |-> "idle", step |-> 0, hit |-> FALSE,
                                      fp |-> NoGen, data |-> NoGen, meta |-> NoGen]]
    /\ last' = [op |-> "return", hero |-> t, before |-> NoState]
    /\ UNCHANGED <<payload, phase, error, state, profiles, heroes, assign, files, cache>>

NextThreads ==
    \/ \E f \in FileNames : Touch(f, "good")
    \/ \E t \in 1..NumThreads : Enter(t)
    \/ \E t \in 1..NumThreads : Write(t)
    \/ \E t \in 1..NumThreads : Return(t)

SpecThreads == InitThreads /\ [][NextThreads]_vars

----------------------------------------------------------------------------
(* Further claims about the recommender, checked under SpecRecommend *)

\* C27: in the pick branch with lookahead enabled, every returned
\* recommendation is one of the top beam_width candidates, and no candidate
\* outside the beam stands ahead of a beam candidate in the returned list.
C27_ReturnedFromBeam ==
    (phase = "answered" /\ response.mode = "pick" /\ Settings.enabled) =>
        /\ \A i \in 1..Len(Recs) :
               InBeam(Recs[i].hero, ViableFor(state, response.side), Settings.beamWidth)
        /\ \A i, j \in 1..Len(Recs) :
               (/\ i < j
                /\ InBeam(Recs[j].hero, ViableFor(state, response.side),
                          Settings.beamWidth))
                   => InBeam(Recs[i].hero, ViableFor(state, response.side),
                             Settings.beamWidth)

\* The picks of the side on the clock admit no valid role assignment.
ClockSideInfeasible ==
    /\ phase = "answered"
    /\ response.mode = "pick"
    /\ ~AssignmentForSide(state.picks[response.side], profiles, ROLES).isFeasible

\* C30: infeasibility is absorbing: when the picks of the side on the clock
\* admit no valid role assignment, every free hero of the store leaves the
\* side without one when added, its feasibility component is 0, and the
\* pick branch returns an empty list.
C30_InfeasibleSideGetsNoPick ==
    ClockSideInfeasible =>
        /\ \A h \in DOMAIN profiles \ AllHeroes(state) :
               /\ ~AssignmentForSide(Append(state.picks[response.side], h),
                                     profiles, ROLES).isFeasible
               /\ EvaluatePickCandidate(state, response.side, h, profiles,
                                        ROLES).components["feasibility"] = 0
        /\ Recs = <<>>

\* A side with two jungle-only picks is on the clock, heroes of the store
\* are free, and the answer holds none.
C30_Witness ==
    /\ ClockSideInfeasible
    /\ response.side = "enemy"
    /\ Len(state.picks[response.side]) = 2
    /\ Cardinality(DOMAIN profiles \ AllHeroes(state)) > 6
    /\ Recs = <<>>

----------------------------------------------------------------------------
(* From hero_role_pool.json to the solver: _validate_role_pool, the        *)
(* profile _build_profiles stores, and _assignment_for_side on it.  The    *)
(* overrides file is absent.  Powers are in hundredths.                    *)

\* _validate_role_pool for the heroes of a well-formed file: the roles in
\* the order the file lists them, and for every one of them the configured
\* power cut to [0.0, 1.0], or DEFAULT_ROLE_POWER when none is configured.
ValidateRolePool(cfgs) ==
    [h \in DOMAIN cfgs |->
        [possibleRoles |-> cfgs[h].possibleRoles,
         rolePower |-> [r \in Range(cfgs[h].possibleRoles) |->
                          IF r \in DOMAIN cfgs[h].rolePower
                          THEN Max(0, Min(100, cfgs[h].rolePower[r]))
                          ELSE DefaultRolePower]]]

\* The possibleRoles and rolePower of the profile _build_profiles stores
\* for a hero of the role pool:
\* {r: float(role_power.get(r) or 0.70) for r in possible_roles}.
BuildProfile(entry) ==
    [possibleRoles |-> SelectSeq(entry.possibleRoles, LAMBDA r : InList(r, ROLES)),
     rolePower |-> [r \in Range(SelectSeq(entry.possibleRoles,
                                          LAMBDA r : InList(r, ROLES))) |->
                      IF entry.rolePower[r] = 0 THEN DefaultRolePower
                      ELSE entry.rolePower[r]]]

\* A role pool of two heroes that share the jungle and the roam (or hold
\* the jungle alone), in either order, each role with a configured power
\* inside or outside [0.0, 1.0] or with none; both heroes are picked.
InitPool ==
    /\ files = <<>>
    /\ cache = ColdCache
    /\ calls = <<>>
    /\ \E possible \in [1..2 -> {<<"jungle", "roam">>, <<"roam", "jungle">>, <<"jungle">>}] :
       \E powers \in [1..2 -> UNION {[D -> {-300, 0, 70, 170}] :
                                        D \in SUBSET {"jungle", "roam"}}] :
           /\ \A h \in 1..2 : DOMAIN powers[h] \subseteq Range(possible[h])
           /\ payload = [heroes |-> [h \in 1..2 |->
                                        [possibleRoles |-> possible[h],
                                         rolePower |-> powers[h]]]]
    /\ phase = "pool"
    /\ error = ""
    /\ state = NoState
    /\ last = NoOp
    /\ profiles = NoProfiles
    /\ heroes = <<1, 2>>
    /\ assign = NoAssign
    /\ response = NoResponse

\* _build_profiles on the role pool: validate, then store a profile for
\* every hero.
LoadPool ==
    /\ phase = "pool"
    /\ profiles' = [h \in DOMAIN payload.heroes |->
                       BuildProfile(ValidateRolePool(payload.heroes)[h])]
    /\ phase' = "solve"
    /\ last' = [op |-> "load", hero |-> 0, before |-> NoState]
    /\ UNCHANGED <<payload, error, state, heroes, assign, response, files, cache, calls>>

NextPool == LoadPool \/ Solve

SpecPool == InitPool /\ [][NextPool]_vars

\* The store with every hero's roles put in the canonical order.
CanonicalStore ==
    [h \in DOMAIN profiles |->
        [profiles[h] EXCEPT !.possibleRoles =
            SelectSeq(ROLES, LAMBDA r : InList(r, profiles[h].possibleRoles))]]

\* C28: the assignment returned is the one the depth-first search reaches
\* first among those of maximum power when every hero's roles are tried in
\* the canonical order, whatever order the role pool lists them in.
C28_RolesTriedInCanonicalOrder ==
    (phase = "solved" /\ DOMAIN profiles = DOMAIN payload.heroes) =>
        /\ assign.heroToRole
               = AssignmentForSide(heroes, CanonicalStore, ROLES).heroToRole
        /\ assign.bestAssignment
               = AssignmentForSide(heroes, CanonicalStore, ROLES).bestAssignment

\* C29: for every hero and every eligible role, the power in the profile
\* store, which the solver sums, is the configured value cut to [0.0, 1.0],
\* and 0.70 only when the role has no configured value.
C29_StoredPowerIsClampedConfigured ==
    (phase \in {"solve", "solved"} /\ DOMAIN profiles = DOMAIN payload.heroes) =>
        \A h \in DOMAIN payload.heroes :
            \A r \in Range(payload.heroes[h].possibleRoles) :
                LET configured == payload.heroes[h].rolePower
                    expected == IF r \in DOMAIN configured
                                THEN Max(0, Min(100, configured[r]))
                                ELSE DefaultRolePower
                IN  /\ profiles[h].rolePower[r] = expected
                    /\ PowerOf(profiles[h], r) = expected
====
